---- MODULE Spec2Model ----
(***************************************************************************)
(* goapm: the database/sql driver wrapper (apm/sql_driver_wrapper.go) and  *)
(* the hook set built by wrap() (apm/mysql.go).                            *)
(*                                                                         *)
(* A goroutine runs one wrapper method at a time.  A method that calls     *)
(* hooks is cut into steps at the calls it makes on code it does not own:  *)
(* the hooks Before, After and OnError, and the native driver.  log holds  *)
(* the calls the running method has made, in order; op holds its locals    *)
(* and, once pc is "returned", what it returned.                           *)
(*                                                                         *)
(* Driver.hooks is either the hook set built by wrap() or a hook set whose *)
(* functions may return anything ("custom"): the wrapper does not know     *)
(* which.                                                                  *)
(***************************************************************************)
EXTENDS Integers, Sequences, FiniteSets, TLC

\* ------------------------------------------------------------------ bounds
MaxConns == 1
MaxStmts == 2
MaxTxs == 1
MaxSpans == 1

\* The goroutines that call into the wrapper.
Procs == {"g1", "g2"}

\* ------------------------------------------------------------------ errors
\* An error value is its Unwrap chain, outermost first; nil is the empty chain.
Nil == <<>>
ErrSkip == <<"driver.ErrSkip">>
ErrBadConn == <<"driver.ErrBadConn">>
ErrWrappedSkip == <<"stmt: %w", "driver.ErrSkip">>
ErrHook == <<"hook error">>
ErrOther == <<"replaced error">>

\* (a slip: == in place of errors.Is)
errorsIsIdentity(err, target) == err = target

\* errors.Is(err, target): some error of err's chain is target.
errorsIs(err, target) == \E i \in 1..Len(err) : SubSeq(err, i, Len(err)) = target

\* fmt.Errorf("... does not implement driver.X, got %T", c)
CapabilityError(recv, cap) == <<recv \o " does not implement driver." \o cap>>

\* -------------------------------------------------------- native collaborators
\* The optional interfaces a native connection / statement implements.
ConnKinds == { {"ExecerContext", "QueryerContext", "ConnPrepareContext", "ConnBeginTx"},
               {"ExecerContext", "ConnPrepareContext"},
               {} }
\* The statements of a native driver are of one type: context-aware when
\* its connections are fully so, a plain driver.Stmt otherwise.
NativeStmtOf(connKind) ==
    IF {"ExecerContext", "QueryerContext"} \subseteq connKind
    THEN {"StmtExecContext", "StmtQueryContext"} ELSE {}

\* What a native Exec/Query can return: (result, error).
NativeOutcomes == { [res |-> "native result", err |-> Nil],
                    [res |-> "nil", err |-> ErrBadConn],
                    [res |-> "nil", err |-> ErrSkip],
                    [res |-> "nil", err |-> ErrWrappedSkip],
                    [res |-> "partial result", err |-> ErrBadConn] }

\* driver.NamedValue{Name, Ordinal, Value}
NV(n, o, v) == [Name |-> n, Ordinal |-> o, Value |-> v]
ArgLists == { <<>>,
              << NV("", 1, "a") >>,
              << NV("", 2, "b"), NV("k", 1, "a") >> }

\* ------------------------------------------------------------------ SQL texts
QInsert == "INSERT INTO t (k) VALUES (?)"
QSelect == "SELECT 1"
QJoin == "SELECT * FROM a JOIN b ON a.id = b.id"
QBad == "SHOW TABLES"
SQLTexts == {QInsert, QSelect, QJoin, QBad}
\* More texts, for the statements the table-labelled counter tells apart.
QSelectT == "SELECT * FROM t WHERE k = ?"
QUpdate == "UPDATE t SET k = ? WHERE id = ?"
QDelete == "DELETE FROM t WHERE id = ?"
QComma == "SELECT * FROM a, b WHERE a.id = b.id"
QSub == "SELECT * FROM a WHERE id IN (SELECT id FROM b)"
QGarbage == "SELEC 1"
QParen == "SELECT * FROM (a, b)"
\* The texts the callers prepare statements of.
PreparedTexts == {QInsert, QSelect}

\* sqlparser.Preview's statement kinds (iota constants) and the lexer tokens
\* parseTable returns as queryType.
StmtSelect == 0
StmtInsert == 2
StmtUpdate == 4
StmtDelete == 5
StmtShow == 11
StmtUnknown == 14
TokSELECT == 57348
TokINSERT == 57350
TokUPDATE == 57351
TokDELETE == 57352

\* sqlparser.Preview(sql): the kind named by the first word of the text.
Preview(sql) ==
    CASE sql = QInsert -> StmtInsert
      [] sql = QSelect -> StmtSelect
      [] sql = QJoin -> StmtSelect
      [] sql \in {QSelectT, QComma, QSub, QParen} -> StmtSelect
      [] sql = QUpdate -> StmtUpdate
      [] sql = QDelete -> StmtDelete
      [] sql = QGarbage -> StmtUnknown
      [] OTHER -> StmtShow

\* sqlparser.Parse(sql): the statement node, with its table expressions.
\* "SELECT 1" has the implicit table dual; a JOIN is ONE table expression,
\* of type *JoinTableExpr.
Parse(sql) ==
    CASE sql = QInsert -> [err |-> Nil, node |-> "Insert", table |-> "t", exprs |-> <<>>]
      [] sql = QSelect -> [err |-> Nil, node |-> "Select", table |-> "",
                           exprs |-> << [type |-> "AliasedTableExpr", name |-> "dual"] >>]
      [] sql = QJoin -> [err |-> Nil, node |-> "Select", table |-> "",
                         exprs |-> << [type |-> "JoinTableExpr", name |-> ""] >>]
      [] sql = QSelectT -> [err |-> Nil, node |-> "Select", table |-> "",
                            exprs |-> << [type |-> "AliasedTableExpr", name |-> "t"] >>]
      [] sql = QUpdate -> [err |-> Nil, node |-> "Update", table |-> "",
                           exprs |-> << [type |-> "AliasedTableExpr", name |-> "t"] >>]
      [] sql = QDelete -> [err |-> Nil, node |-> "Delete", table |-> "",
                           exprs |-> << [type |-> "AliasedTableExpr", name |-> "t"] >>]
      [] sql = QComma -> [err |-> Nil, node |-> "Select", table |-> "",
                          exprs |-> << [type |-> "AliasedTableExpr", name |-> "a"],
                                       [type |-> "AliasedTableExpr", name |-> "b"] >>]
      [] sql = QSub -> [err |-> Nil, node |-> "Select", table |-> "",
                        exprs |-> << [type |-> "AliasedTableExpr", name |-> "a"] >>]
      [] sql = QParen -> [err |-> Nil, node |-> "Select", table |-> "",
                          exprs |-> << [type |-> "ParenTableExpr", name |-> ""] >>]
      [] sql = QGarbage -> [err |-> <<"syntax error at position 6 near 'SELEC'">>,
                            node |-> "nil", table |-> "", exprs |-> <<>>]
      [] OTHER -> [err |-> Nil, node |-> "Show", table |-> "", exprs |-> <<>>]

\* sqlparser.StmtType(kind)
StmtType(kind) ==
    CASE kind = StmtSelect -> "SELECT"
      [] kind = StmtInsert -> "INSERT"
      [] kind = StmtUpdate -> "UPDATE"
      [] kind = StmtDelete -> "DELETE"
      [] kind = StmtShow -> "SHOW"
      [] OTHER -> "OTHER"

PT(table, op, multi, err, panics) ==
    [tableName |-> table, queryType |-> op, multiTable |-> multi, err |-> err, panic |-> panics]

\* The single-table tail shared by the DELETE, UPDATE and SELECT cases.
oneTable(exprs, tok) ==
    IF Len(exprs) > 1 THEN PT("", 0, TRUE, Nil, FALSE)
    ELSE IF exprs[1].type # "AliasedTableExpr"
         THEN PT("", 0, FALSE, Nil, TRUE)   \* failed type assertion
         ELSE PT(exprs[1].name, tok, FALSE, Nil, FALSE)

\* sqlParser.parseTable
parseTable(sql) ==
    LET queryType == Preview(sql)
        stmt == Parse(sql)
    IN  IF stmt.err # Nil THEN PT("", 0, FALSE, <<"parse sql error: %w">> \o stmt.err, FALSE)
        ELSE CASE queryType = StmtInsert -> PT(stmt.table, TokINSERT, FALSE, Nil, FALSE)
               [] queryType = StmtDelete -> oneTable(stmt.exprs, TokDELETE)
               [] queryType = StmtUpdate -> oneTable(stmt.exprs, TokUPDATE)
               [] queryType = StmtSelect -> oneTable(stmt.exprs, TokSELECT)
               [] OTHER -> PT("", 0, FALSE, <<"unsupported sql type">>, FALSE)

\* ------------------------------------------------------------------ helpers
\* (a slip: values placed by their Ordinal)
namedToAnyByOrdinal(args) ==
    [i \in 1..Len(args) |-> args[CHOOSE j \in 1..Len(args) : args[j].Ordinal = i].Value]

\* namedToAny: the Value of every NamedValue, in the order of the slice.
namedToAny(args) == [i \in 1..Len(args) |-> args[i].Value]

\* sliceToString: "[]" for no arguments, else the %v rendering of the list.
sliceToString(args) == IF Len(args) = 0 THEN <<"[]">> ELSE args

\* truncate: every text of SQLTexts is shorter than maxLength, and stays whole.
maxLength == 1024
truncate(query) == IF Len(query) > maxLength THEN "query[:maxLength]" ELSE query

\* ------------------------------------------------------------------ contexts
\* A context.Context is the values a hook can read back from it: the begin
\* time under ctxBeginTime (-1: absent), the span (0: none, SpanFromContext
\* then yields the no-op span) and the function that derived it.
Background == [begin |-> -1, span |-> 0, from |-> "caller"]
\* The context of a traced request: it carries the request's span, span 1.
RequestCtx == [begin |-> -1, span |-> 1, from |-> "caller"]
CallerCtxs == {Background, RequestCtx}
\* The contexts queries are made with.
QueryCtxs == {RequestCtx}

\* ------------------------------------------------------------------ state
VARIABLES
    hooks,            \* Driver.hooks: "wrap" (built by wrap()) or "custom"
    conns,            \* Conn wrappers: the capabilities of the native conn of each
    stmts,            \* Stmt wrappers: [query, caps of the native stmt]
    prepared,         \* history: the text each statement's PrepareContext call was given
    txs,              \* DriverTx wrappers: [start, ctx, longTxThreshold]
    spans,            \* every span started: [parent, attrs, ended, errors]
    libraryCounter,   \* label tuple -> count
    auditLog,         \* Logger.Info(ctx, "auditsql", ...) records
    slowSqlThreshold,
    longTxThreshold,
    now,              \* time.Now()
    pc,               \* per goroutine: where it is in the method it runs
    op,               \* per goroutine: the locals of the method it runs
    log,              \* per goroutine: the calls the running method has made
    drivers,          \* database/sql's registry: [key, driver], in registration order
    dbs,              \* the NewMySQL and NewGorm calls made: what each registered and returned
    deferFuncs,       \* Infra.deferFuncs
    invoked,          \* history: the functions of deferFuncs invoked so far, in order
    stopAt,           \* Infra.Stop: the loop index i (1-based), 0 after the loop, -1 outside Stop
    stopFrom,         \* history: how many invocations had been made when Stop was last called
    stops,            \* history: the calls of Stop made
    upg,              \* Infra.upg: 0 for nil, else the function registered to stop it
    prepended,        \* history: the functions that were put at the front of deferFuncs
    mysqls,           \* Infra.mysqls: business name -> the NewMySQL call that made the client
    gorms,            \* Infra.gorms
    redisV6s,         \* Infra.redisV6s
    redisV9s,         \* Infra.redisV9s
    redisMade,        \* history: the NewRedisV6 and NewRedisV9 calls made
    lastOpt,          \* history: the client option applied last and how it ended
    optsApplied,      \* history: the client options applied
    ginOpts,          \* the ginOtel the options of GinOtel have filled in
    serving,          \* the call a middleware, interceptor or hook is handling
    handled,          \* history: the calls handled or being handled
    serverHandleCounter,    \* label tuple -> count
    serverHandleHistogram   \* label tuple -> number of observations

\* The state of the driver wrapper, of the driver registry, and all of it.
wrapperVars == <<hooks, conns, stmts, prepared, txs, spans, libraryCounter, auditLog,
                 slowSqlThreshold, longTxThreshold, now, pc, op, log>>
registryVars == <<drivers, dbs>>
closerVars == <<deferFuncs, invoked, stopAt, stopFrom, stops, upg, prepended>>
clientVars == <<mysqls, gorms, redisV6s, redisV9s, redisMade, lastOpt, optsApplied>>
serveVars == <<ginOpts, serving, handled, serverHandleCounter, serverHandleHistogram>>
vars == <<wrapperVars, registryVars, closerVars, clientVars, serveVars>>

\* What the methods of the driver wrapper leave alone.
others == <<registryVars, closerVars, clientVars, serveVars>>

\* `o := &ginOtel{}`
NoGinOpts == [panicHooks |-> <<>>, recordResponse |-> "nil",
              recordResponseWhenLogrusError |-> FALSE,
              filterRecordResponse |-> "nil", formatResponse |-> "nil"]

\* No call is being handled.
NoCall == [by |-> "none", pc |-> "idle"]

\* A map without keys.
EmptyMap == [n \in {} |-> 0]

\* var slowSqlThreshold = 1 * time.Second; longTxThreshold = 3 * time.Second
SlowSqlSeconds == 1
LongTxSeconds == 3

NoOp == [kind |-> "none", recv |-> 0, made |-> 0, query |-> "", args |-> <<>>, list |-> <<>>,
         callerCtx |-> Background, ctx |-> Background,
         natRes |-> "nil", natErr |-> Nil, res |-> "nil", err |-> Nil]

\* Everything but the connections and statements of a fresh process.
InitRest ==
    /\ hooks \in {"wrap", "custom"}
    /\ txs = <<>>
    /\ spans = << [parent |-> 0, attrs |-> {}, ended |-> 0, errors |-> <<>>] >>
    /\ libraryCounter = <<>>
    /\ auditLog = <<>>
    /\ slowSqlThreshold = SlowSqlSeconds
    /\ longTxThreshold = LongTxSeconds
    /\ now = 0
    /\ pc = [p \in Procs |-> "idle"]
    /\ op = [p \in Procs |-> NoOp]
    /\ log = [p \in Procs |-> <<>>]
    /\ drivers = << [key |-> <<"mysql">>, driver |-> "mysql.MySQLDriver"] >>
    /\ dbs = <<>>
    /\ deferFuncs = <<>>
    /\ invoked = <<>>
    /\ stopAt = -1
    /\ stopFrom = 0
    /\ stops = 0
    /\ upg = 0
    /\ prepended = {}
    /\ mysqls = EmptyMap
    /\ gorms = EmptyMap
    /\ redisV6s = EmptyMap
    /\ redisV9s = EmptyMap
    /\ redisMade = <<>>
    /\ lastOpt = [opt |-> "none", name |-> "", panicked |-> FALSE, made |-> FALSE]
    /\ optsApplied = 0
    /\ ginOpts = NoGinOpts
    /\ serving = NoCall
    /\ handled = 0
    /\ serverHandleCounter = <<>>
    /\ serverHandleHistogram = <<>>

Init ==
    /\ conns = <<>>
    /\ stmts = <<>>
    /\ prepared = <<>>
    /\ InitRest

\* ------------------------------------------------------------------ spans
\* span.SetAttributes: dropped by the no-op span and by a span already ended.
SetAttributes(ss, id, kvs) ==
    IF id = 0 \/ ss[id].ended > 0 THEN ss
    ELSE [ss EXCEPT ![id].attrs = {kv \in @ : \A n \in kvs : n[1] # kv[1]} \cup kvs]

\* span.RecordError
RecordError(ss, id, err) ==
    IF id = 0 \/ ss[id].ended > 0 THEN ss ELSE [ss EXCEPT ![id].errors = Append(@, err)]

\* span.End
End(ss, id) == IF id = 0 THEN ss ELSE [ss EXCEPT ![id].ended = @ + 1]

\* tracer.Start(ctx, name): a new span, child of ctx's span.
Start(ss, ctx) == Append(ss, [parent |-> ctx.span, attrs |-> {}, ended |-> 0, errors |-> <<>>])

\* libraryCounter.WithLabelValues(l...).Inc()
Inc(counter, labels) ==
    IF \E i \in 1..Len(counter) : counter[i].labels = labels
    THEN [i \in 1..Len(counter) |->
            IF counter[i].labels = labels THEN [counter[i] EXCEPT !.n = @ + 1] ELSE counter[i]]
    ELSE Append(counter, [labels |-> labels, n |-> 1])

\* ------------------------------------------------------------------ wrap()
\* The labels and names wrap() closes over.
MysqlName == "ordersvc"
DsnLabel == "goapm.127.0.0.1:3306"
LibraryTypeMySQL == "mysql"

\* wrap().Before
WrapBefore(ss, ctx, query, args, t) ==
    LET ctx1 == [ctx EXCEPT !.begin = t]
        ss1 == Start(ss, ctx1)
        id == Len(ss1)
    IN  [ctx |-> [ctx1 EXCEPT !.span = id, !.from = "Before"],
         err |-> Nil,
         spans |-> SetAttributes(ss1, id, { <<"mysql.name", MysqlName>>,
                                            <<"sql", truncate(query)>>,
                                            <<"args", truncate(sliceToString(args))>> })]

\* wrap().After.  parseTable runs first: when it panics nothing else of the
\* hook has run, the deferred span.End() included.
WrapAfter(ss, counter, audit, slow, ctx, query, args, t) ==
    LET pt == parseTable(query)
        beginTime == IF ctx.begin # -1 THEN ctx.begin ELSE t
        elapsed == t - beginTime
        ss1 == IF elapsed > slow
               THEN SetAttributes(ss, ctx.span, { <<"slowsql", TRUE>>,
                                                  <<"sql_duration_ms", elapsed * 1000>> })
               ELSE ss
    IN  IF pt.panic
        THEN [panic |-> TRUE, err |-> Nil, spans |-> ss, counter |-> counter, audit |-> audit]
        ELSE [panic |-> FALSE,
              err |-> Nil,
              spans |-> End(ss1, ctx.span),
              counter |-> IF ~pt.multiTable /\ pt.err = Nil
                          THEN Inc(counter, <<LibraryTypeMySQL, StmtType(pt.queryType),
                                              pt.tableName, DsnLabel>>)
                          ELSE counter,
              audit |-> IF pt.queryType \in {StmtInsert, StmtUpdate, StmtDelete}
                        THEN Append(audit, [ctx |-> ctx, query |-> query, args |-> args,
                                            duration_ms |-> elapsed * 1000])
                        ELSE audit]

\* (a slip: the skip sentinel swallowed)
WrapOnErrorSwallowsSkip(ss, ctx, err) ==
    [err |-> IF errorsIs(err, ErrSkip) THEN Nil ELSE err, spans |-> End(ss, ctx.span)]

\* wrap().OnError
WrapOnError(ss, ctx, err) ==
    LET id == ctx.span
    IN  IF ~errorsIs(err, ErrSkip)
        THEN [err |-> err,
              spans |-> End(RecordError(SetAttributes(ss, id, { <<"error", TRUE>> }), id, err), id)]
        ELSE [err |-> err,
              spans |-> End(SetAttributes(ss, id, { <<"drop", TRUE>> }), id)]

\* ------------------------------------------------------------------ the wrapper
ConnKindsOfOp == {"Conn.ExecContext", "Conn.QueryContext"}
StmtKindsOfOp == {"Stmt.ExecContext", "Stmt.QueryContext"}
HookedOps == ConnKindsOfOp \cup StmtKindsOfOp

\* One call made by a wrapper method: a hook or native method entered
\* (".call") or left (".return", ".panic").
Ev(ev, query, args, ctx, err) ==
    [ev |-> ev, query |-> query, args |-> args, ctx |-> ctx, err |-> err]

\* (a slip: a statement handing its hooks a per-call text it does not have)
HookQueryOfCall(o) == o.query

\* The query text a method hands to its hooks: the query parameter on a
\* connection, the field s.query on a statement.
HookQuery(o) == IF o.kind \in StmtKindsOfOp THEN stmts[o.recv].query ELSE o.query

\* (a slip: the native method called without the type switch)
DelegatesUnchecked(o) == TRUE

\* The type switch of execContext / queryContext: does the native object
\* implement the interface the method delegates to?
Delegates(o) ==
    CASE o.kind = "Conn.ExecContext" -> "ExecerContext" \in conns[o.recv]
      [] o.kind = "Conn.QueryContext" -> "QueryerContext" \in conns[o.recv]
      [] o.kind = "Stmt.ExecContext" -> "StmtExecContext" \in stmts[o.recv].caps
      [] o.kind = "Stmt.QueryContext" -> "StmtQueryContext" \in stmts[o.recv].caps

\* The error of the default branch of that type switch.
MissingCapability(o) ==
    CASE o.kind = "Conn.ExecContext" -> CapabilityError("Conn", "ExecerContext")
      [] o.kind = "Conn.QueryContext" -> CapabilityError("Conn", "QueryerContext")
      [] o.kind = "Stmt.ExecContext" -> CapabilityError("Stmt", "StmtExecContext")
      [] o.kind = "Stmt.QueryContext" -> CapabilityError("Stmt", "StmtQueryContext")

\* (a slip: the delegate invoked ahead of Before)
EnteredNativeFirst(o) ==
    << Ev("Native.call", o.query, o.args, o.callerCtx, Nil),
       Ev("Native.return", o.query, o.args, o.callerCtx, Nil),
       Ev("Before.call", HookQuery(o), o.list, o.callerCtx, Nil) >>

\* The calls a hooked method makes on entry: Before, with the query text and
\* the flattened arguments.
Entered(o) == << Ev("Before.call", HookQuery(o), o.list, o.callerCtx, Nil) >>

\* (a slip: the error of Before dropped)
BeforeFailedIgnored(err) == FALSE

\* `if ctx, err = hooks.Before(...); err != nil`
BeforeFailed(err) == err # Nil

\* (a slip: After whatever the delegate returned)
TerminalHookAlwaysAfter(err) == "After"

\* `if err != nil { return results, hooks.OnError(...) }`, else After: the
\* hook that follows the delegate helper.
TerminalHook(err) == IF err # Nil THEN "OnError" ELSE "After"

\* `return results, hooks.OnError(ctx, err, query, list...)`
ReturnOnError(results, hookErr) == [res |-> results, err |-> hookErr]

\* (a slip: the error of After wrapped on the way out)
ReturnAfterWrapped(results, hookErr) ==
    [res |-> results, err |-> IF hookErr # Nil THEN <<"after hook: %w">> \o hookErr ELSE Nil]

\* `if _, err := hooks.After(...); err != nil { return results, err }; return results, nil`
ReturnAfter(results, hookErr) == [res |-> results, err |-> IF hookErr # Nil THEN hookErr ELSE Nil]

\* `return nil, err` after a failed Before
ReturnBefore(hookErr) == [res |-> "nil", err |-> hookErr]

\* A goroutine may start a hooked method while a span is left for its Before.
SpanLeft == Len(spans) + Cardinality({q \in Procs : pc[q] = "Before"}) < 1 + MaxSpans

\* Entry of a hooked method: list := namedToAny(args); hooks.Before(ctx, query, list...)
EnterIf(room, p, kind, recv, ctx, query, args) ==
    LET o == [NoOp EXCEPT !.kind = kind, !.recv = recv, !.query = query, !.args = args,
                          !.list = namedToAny(args), !.callerCtx = ctx, !.ctx = ctx]
    IN  /\ pc[p] = "idle"
        /\ room
        /\ op' = [op EXCEPT ![p] = o]
        /\ pc' = [pc EXCEPT ![p] = "Before"]
        /\ log' = [log EXCEPT ![p] = Entered(o)]
        /\ UNCHANGED <<others, hooks, conns, stmts, prepared, txs, spans, libraryCounter, auditLog,
                       slowSqlThreshold, longTxThreshold, now>>

Enter(p, kind, recv, ctx, query, args) == EnterIf(SpanLeft, p, kind, recv, ctx, query, args)

\* Conn.ExecContext, up to the call of Before
ConnExecContext(p) ==
    \E c \in 1..Len(conns), ctx \in QueryCtxs, query \in SQLTexts, args \in ArgLists :
        Enter(p, "Conn.ExecContext", c, ctx, query, args)

\* Conn.QueryContext, up to the call of Before
ConnQueryContext(p) ==
    \E c \in 1..Len(conns), ctx \in QueryCtxs, query \in SQLTexts, args \in ArgLists :
        Enter(p, "Conn.QueryContext", c, ctx, query, args)

\* Stmt.ExecContext, up to the call of Before
StmtExecContext(p) ==
    \E s \in 1..Len(stmts), ctx \in QueryCtxs, args \in ArgLists :
        Enter(p, "Stmt.ExecContext", s, ctx, "", args)

\* Stmt.QueryContext, up to the call of Before
StmtQueryContext(p) ==
    \E s \in 1..Len(stmts), ctx \in QueryCtxs, args \in ArgLists :
        Enter(p, "Stmt.QueryContext", s, ctx, "", args)

\* What Before returns: (ctx, err) and the spans it leaves.
BeforeResults(o) ==
    IF hooks = "wrap"
    THEN { WrapBefore(spans, o.ctx, HookQuery(o), o.list, now) }
    ELSE { [ctx |-> [o.ctx EXCEPT !.from = "Before"], err |-> e, spans |-> spans] :
             e \in {Nil, ErrHook} }

\* (a slip: `ctx, err := ...`, a new ctx that lives only inside the if)
ReassignedShadowed(o, ctx) == o

\* `ctx, err = hooks.Before(ctx, ...)`: from here on the method's ctx is the
\* one Before returned.
Reassigned(o, ctx) == [o EXCEPT !.ctx = ctx]

\* Before returns: `if ctx, err = Before(...); err != nil { return nil, err }`,
\* then the delegate helper (execContext, queryContext): the native method is
\* entered when the native object implements it, else the helper returns
\* the capability error, which goes to OnError like any delegate error.
BeforeReturns(p) ==
    /\ pc[p] = "Before"
    /\ \E r \in BeforeResults(op[p]) :
         LET o == Reassigned(op[p], r.ctx)
             back == Ev("Before.return", HookQuery(o), o.list, r.ctx, r.err)
             ret == ReturnBefore(r.err)
             failed == [o EXCEPT !.natRes = "nil", !.natErr = MissingCapability(o)]
         IN  /\ spans' = r.spans
             /\ IF BeforeFailed(r.err)
                THEN /\ op' = [op EXCEPT ![p] = [o EXCEPT !.res = ret.res, !.err = ret.err]]
                     /\ pc' = [pc EXCEPT ![p] = "returned"]
                     /\ log' = [log EXCEPT ![p] = Append(@, back)]
                ELSE IF Delegates(o)
                THEN /\ op' = [op EXCEPT ![p] = o]
                     /\ pc' = [pc EXCEPT ![p] = "Native"]
                     /\ log' = [log EXCEPT ![p] = @ \o
                            << back, Ev("Native.call", o.query, o.args, o.ctx, Nil) >>]
                ELSE /\ op' = [op EXCEPT ![p] = failed]
                     /\ pc' = [pc EXCEPT ![p] = TerminalHook(failed.natErr)]
                     /\ log' = [log EXCEPT ![p] = @ \o
                            << back, Ev(TerminalHook(failed.natErr) \o ".call", HookQuery(o),
                                        o.list, o.ctx, failed.natErr) >>]
    /\ UNCHANGED <<others, hooks, conns, stmts, prepared, txs, libraryCounter, auditLog,
                   slowSqlThreshold, longTxThreshold, now>>

\* The native method returns (results, err): OnError is entered on an error,
\* After otherwise.
NativeReturns(p) ==
    /\ pc[p] = "Native"
    /\ \E out \in NativeOutcomes :
         LET o == [op[p] EXCEPT !.natRes = out.res, !.natErr = out.err]
             back == Ev("Native.return", o.query, o.args, o.ctx, out.err)
         IN  /\ op' = [op EXCEPT ![p] = o]
             /\ pc' = [pc EXCEPT ![p] = TerminalHook(out.err)]
             /\ log' = [log EXCEPT ![p] = @ \o
                    << back, Ev(TerminalHook(out.err) \o ".call", HookQuery(o), o.list,
                                o.ctx, out.err) >>]
    /\ UNCHANGED <<others, hooks, conns, stmts, prepared, txs, spans, libraryCounter, auditLog,
                   slowSqlThreshold, longTxThreshold, now>>

\* The ctx a terminal hook is handed: the local `ctx` of the method, which
\* `ctx, err = hooks.Before(ctx, ...)` has reassigned.
\* (a slip: the span and start time kept in one place for all calls)
HookCtxShared(o) == [o.ctx EXCEPT !.span = Len(spans)]
HookCtx(o) == o.ctx

\* What After returns or does instead of returning.
AfterResults(o) ==
    IF hooks = "wrap"
    THEN { WrapAfter(spans, libraryCounter, auditLog, slowSqlThreshold,
                     HookCtx(o), HookQuery(o), o.list, now) }
    ELSE { [panic |-> FALSE, err |-> e, spans |-> spans,
            counter |-> libraryCounter, audit |-> auditLog] : e \in {Nil, ErrHook} }

\* After returns: `if _, err := After(...); err != nil { return results, err }`
\* and `return results, nil`.  A panic of After unwinds the method.
AfterReturns(p) ==
    /\ pc[p] = "After"
    /\ \E r \in AfterResults(op[p]) :
         /\ spans' = r.spans
         /\ libraryCounter' = r.counter
         /\ auditLog' = r.audit
         /\ IF r.panic
            THEN /\ pc' = [pc EXCEPT ![p] = "panicked"]
                 /\ log' = [log EXCEPT ![p] = Append(@,
                        Ev("After.panic", HookQuery(op[p]), op[p].list, op[p].ctx, Nil))]
                 /\ op' = op
            ELSE /\ pc' = [pc EXCEPT ![p] = "returned"]
                 /\ log' = [log EXCEPT ![p] = Append(@,
                        Ev("After.return", HookQuery(op[p]), op[p].list, op[p].ctx, r.err))]
                 /\ op' = [op EXCEPT ![p].res = ReturnAfter(op[p].natRes, r.err).res,
                                     ![p].err = ReturnAfter(op[p].natRes, r.err).err]
    /\ UNCHANGED <<others, hooks, conns, stmts, prepared, txs, slowSqlThreshold, longTxThreshold, now>>

\* What OnError returns.
OnErrorResults(o) ==
    IF hooks = "wrap"
    THEN { WrapOnError(spans, HookCtx(o), o.natErr) }
    ELSE { [err |-> e, spans |-> spans] : e \in {o.natErr, Nil, ErrOther} }

\* OnError returns: `return results, hooks.OnError(ctx, err, query, list...)`
OnErrorReturns(p) ==
    /\ pc[p] = "OnError"
    /\ \E r \in OnErrorResults(op[p]) :
         /\ spans' = r.spans
         /\ pc' = [pc EXCEPT ![p] = "returned"]
         /\ log' = [log EXCEPT ![p] = Append(@,
                Ev("OnError.return", HookQuery(op[p]), op[p].list, op[p].ctx, r.err))]
         /\ op' = [op EXCEPT ![p].res = ReturnOnError(op[p].natRes, r.err).res,
                             ![p].err = ReturnOnError(op[p].natRes, r.err).err]
    /\ UNCHANGED <<others, hooks, conns, stmts, prepared, txs, libraryCounter, auditLog,
                   slowSqlThreshold, longTxThreshold, now>>

\* An ended span is with the exporter: nothing can change it any more
\* (SetAttributes and RecordError drop what comes after End), and the model
\* keeps of it only how often it was ended.
Exported(ss, id) ==
    IF id = 0 \/ ss[id].ended = 0 THEN ss
    ELSE [ss EXCEPT ![id] = [parent |-> 0, attrs |-> {}, ended |-> ss[id].ended, errors |-> <<>>]]

\* The caller takes the outcome of the method; the goroutine is free again.
Done(p) ==
    /\ pc[p] \in {"returned", "panicked"}
    /\ pc' = [pc EXCEPT ![p] = "idle"]
    /\ op' = [op EXCEPT ![p] = NoOp]
    /\ log' = [log EXCEPT ![p] = <<>>]
    /\ spans' = IF op[p].kind \in HookedOps /\ op[p].ctx.from = "Before"
                THEN Exported(spans, op[p].ctx.span) ELSE spans
    /\ UNCHANGED <<others, hooks, conns, stmts, prepared, txs, libraryCounter, auditLog,
                   slowSqlThreshold, longTxThreshold, now>>

\* (a slip: the method goes through Before)
ReturnsThroughBefore(p, o, calls) ==
    /\ pc[p] = "idle"
    /\ pc' = [pc EXCEPT ![p] = "returned"]
    /\ op' = [op EXCEPT ![p] = o]
    /\ log' = [log EXCEPT ![p] = << Ev("Before.call", o.query, <<>>, o.callerCtx, Nil) >> \o calls]

\* A method that calls no hook runs in one step, from entry to return.
Returns(p, o, calls) ==
    /\ pc[p] = "idle"
    /\ pc' = [pc EXCEPT ![p] = "returned"]
    /\ op' = [op EXCEPT ![p] = o]
    /\ log' = [log EXCEPT ![p] = calls]

\* Driver.Open
Open(p) ==
    /\ Len(conns) < MaxConns
    /\ \/ \E k \in ConnKinds :
            /\ conns' = Append(conns, k)
            /\ Returns(p, [NoOp EXCEPT !.kind = "Driver.Open", !.res = "Conn",
                                       !.made = Len(conns) + 1, !.natRes = "native conn"],
                       << Ev("Native.call", "", <<>>, Background, Nil),
                          Ev("Native.return", "", <<>>, Background, Nil) >>)
       \/ /\ conns' = conns
          /\ Returns(p, [NoOp EXCEPT !.kind = "Driver.Open", !.natErr = ErrBadConn,
                                     !.err = ErrBadConn],
                     << Ev("Native.call", "", <<>>, Background, Nil),
                        Ev("Native.return", "", <<>>, Background, ErrBadConn) >>)
    /\ UNCHANGED <<others, hooks, stmts, prepared, txs, spans, libraryCounter, auditLog,
                   slowSqlThreshold, longTxThreshold, now>>

\* The type assertion `conn.Conn.(driver.X)` of PrepareContext and beginTx.
ImplementsAnything(c, iface) == TRUE
Implements(c, iface) == iface \in c

\* `&Stmt{stmt, conn.hooks, query}`
NewStmt(stmt, query) == [query |-> query, caps |-> stmt]

\* Conn.PrepareContext
PrepareContext(p) ==
    /\ Len(stmts) < MaxStmts
    /\ \E c \in 1..Len(conns), ctx \in QueryCtxs, query \in PreparedTexts :
         LET o == [NoOp EXCEPT !.kind = "Conn.PrepareContext", !.recv = c, !.query = query,
                               !.callerCtx = ctx, !.ctx = ctx]
             call == Ev("Native.call", query, <<>>, ctx, Nil)
         IN  IF Implements(conns[c], "ConnPrepareContext")
             THEN \/ /\ stmts' = Append(stmts, NewStmt(NativeStmtOf(conns[c]), query))
                     /\ prepared' = Append(prepared, query)
                     /\ Returns(p, [o EXCEPT !.natRes = "native stmt", !.res = "Stmt",
                                             !.made = Len(stmts) + 1],
                                << call, Ev("Native.return", query, <<>>, ctx, Nil) >>)
                  \/ /\ UNCHANGED <<stmts, prepared>>
                     /\ Returns(p, [o EXCEPT !.natErr = ErrBadConn, !.err = ErrBadConn],
                                << call, Ev("Native.return", query, <<>>, ctx, ErrBadConn) >>)
             ELSE /\ UNCHANGED <<stmts, prepared>>
                  /\ Returns(p, [o EXCEPT !.err = CapabilityError("Conn", "ConnPrepareContext")],
                             <<>>)
    /\ UNCHANGED <<others, hooks, conns, txs, spans, libraryCounter, auditLog,
                   slowSqlThreshold, longTxThreshold, now>>

\* The transaction methods.  Time stands still in Spec, which leaves them out.
\* Conn.BeginTx, with its helper beginTx
BeginTx(p) ==
    /\ Len(txs) < MaxTxs
    /\ \E c \in 1..Len(conns), ctx \in CallerCtxs :
         LET o == [NoOp EXCEPT !.kind = "Conn.BeginTx", !.recv = c, !.callerCtx = ctx, !.ctx = ctx]
             call == Ev("Native.call", "", <<>>, ctx, Nil)
         IN  IF Implements(conns[c], "ConnBeginTx")
             THEN \/ /\ txs' = Append(txs, [start |-> now, ctx |-> ctx,
                                             longTxThreshold |-> longTxThreshold, open |-> TRUE])
                     /\ Returns(p, [o EXCEPT !.natRes = "native tx", !.res = "DriverTx",
                                             !.made = Len(txs) + 1],
                                << call, Ev("Native.return", "", <<>>, ctx, Nil) >>)
                  \/ /\ txs' = txs
                     /\ Returns(p, [o EXCEPT !.natErr = ErrBadConn, !.err = ErrBadConn],
                                << call, Ev("Native.return", "", <<>>, ctx, ErrBadConn) >>)
             ELSE /\ txs' = txs
                  /\ Returns(p, [o EXCEPT !.err = CapabilityError("Conn", "ConnBeginTx")], <<>>)
    /\ UNCHANGED <<others, hooks, conns, stmts, prepared, spans, libraryCounter, auditLog,
                   slowSqlThreshold, longTxThreshold, now>>

\* (a slip: the process-wide threshold read when the transaction ends)
ThresholdNow(dt) == longTxThreshold

\* `dt.longTxThreshold`: the field BeginTx filled in.
ThresholdOf(dt) == dt.longTxThreshold

\* `elapsed >= dt.longTxThreshold`
IsLongTxStrict(elapsed, threshold) == elapsed > threshold
IsLongTx(elapsed, threshold) == elapsed >= threshold

\* The tail shared by DriverTx.Commit and DriverTx.Rollback: the native
\* method has returned err; flag the span of the stored context when the
\* transaction lasted at least its threshold; return err.
Finish(p, kind, t, err) ==
    LET dt == txs[t]
        elapsed == now - dt.start
    IN  /\ txs' = [txs EXCEPT ![t].open = FALSE]
        /\ spans' = IF IsLongTx(elapsed, ThresholdOf(dt))
                    THEN SetAttributes(spans, dt.ctx.span,
                                       { <<"longtx", TRUE>>, <<"tx_duration_ms", elapsed * 1000>> })
                    ELSE spans
        /\ Returns(p, [NoOp EXCEPT !.kind = kind, !.recv = t, !.natErr = err, !.err = err],
                   << Ev("Native.call", "", <<>>, Background, Nil),
                      Ev("Native.return", "", <<>>, Background, err) >>)
        /\ UNCHANGED <<others, hooks, conns, stmts, prepared, libraryCounter, auditLog,
                       slowSqlThreshold, longTxThreshold, now>>

\* DriverTx.Commit
Commit(p) ==
    \E t \in 1..Len(txs), err \in {Nil, ErrBadConn} : txs[t].open /\ Finish(p, "DriverTx.Commit", t, err)

\* DriverTx.Rollback
Rollback(p) ==
    \E t \in 1..Len(txs), err \in {Nil, ErrBadConn} : txs[t].open /\ Finish(p, "DriverTx.Rollback", t, err)

\* What goroutine p can do next.
Step(p) ==
    \/ Open(p)
    \/ PrepareContext(p)
    \/ ConnExecContext(p)
    \/ ConnQueryContext(p)
    \/ StmtExecContext(p)
    \/ StmtQueryContext(p)
    \/ BeforeReturns(p)
    \/ NativeReturns(p)
    \/ AfterReturns(p)
    \/ OnErrorReturns(p)
    \/ Done(p)

\* One goroutine calls the wrapper, one method after the other.
Next == Step("g1")

Spec == Init /\ [][Next]_vars

\* ------------------------------------------------------------------ reading the log
\* The positions of the calls of one kind a goroutine's method has made.
At(p, ev) == {i \in 1..Len(log[p]) : log[p][i].ev = ev}
Times(p, ev) == Cardinality(At(p, ev))
Hooked(p) == op[p].kind \in HookedOps
Finished(p) == pc[p] \in {"returned", "panicked"}
BeforeReturned(p, failed) ==
    \E i \in At(p, "Before.return") : (log[p][i].err # Nil) = failed
NativeReturned(p, failed) ==
    \E i \in At(p, "Native.return") : (log[p][i].err # Nil) = failed
HookCalls == {"Before.call", "After.call", "OnError.call"}

\* ------------------------------------------------------------------ C1
\* C1: a finished Exec/Query call whose Before returned no error has invoked
\* exactly one terminal hook: After and not OnError when the native call
\* returned no error, OnError and not After when it returned an error.
C1_OneTerminalHook ==
    \A p \in Procs :
        (Hooked(p) /\ Finished(p) /\ BeforeReturned(p, FALSE)) =>
            /\ Times(p, "After.call") + Times(p, "OnError.call") = 1
            /\ NativeReturned(p, FALSE) => Times(p, "After.call") = 1
            /\ NativeReturned(p, TRUE) => Times(p, "OnError.call") = 1

\* A statement's QueryContext returned after its native call failed.
C1_Witness ==
    \E p \in Procs :
        /\ pc[p] = "returned" /\ op[p].kind = "Stmt.QueryContext"
        /\ NativeReturned(p, TRUE) /\ Times(p, "OnError.call") = 1

\* ------------------------------------------------------------------ C2
\* C2: in one Exec/Query call Before is invoked once, first, and has returned
\* before the native method is entered; the native method has returned
\* before After or OnError is entered; no two of these calls are open at once.
C2_PhasesInOrder ==
    \A p \in Procs :
        Hooked(p) =>
            /\ Times(p, "Before.call") = 1
            /\ log[p][1].ev = "Before.call"
            /\ \A i \in 1..Len(log[p]) :
                 LET e == log[p][i].ev
                 IN  /\ e = "Native.call" => i > 1 /\ log[p][i - 1].ev = "Before.return"
                     /\ e \in {"After.call", "OnError.call"} =>
                            /\ i > 1
                            /\ log[p][i - 1].ev \in {"Before.return", "Native.return"}
                            /\ At(p, "Native.call") # {} => log[p][i - 1].ev = "Native.return"
                     /\ e = "Before.call" /\ i < Len(log[p]) => log[p][i + 1].ev = "Before.return"
                     /\ e = "Native.call" /\ i < Len(log[p]) => log[p][i + 1].ev = "Native.return"
                     /\ e = "After.call" /\ i < Len(log[p]) =>
                            log[p][i + 1].ev \in {"After.return", "After.panic"}
                     /\ e = "OnError.call" /\ i < Len(log[p]) => log[p][i + 1].ev = "OnError.return"

\* A connection's QueryContext went through all three phases.
C2_Witness ==
    \E p \in Procs :
        /\ pc[p] = "returned" /\ op[p].kind = "Conn.QueryContext"
        /\ Times(p, "Native.return") = 1 /\ Times(p, "After.return") = 1

\* ------------------------------------------------------------------ C3
\* The call of kind ev the method made (there is at most one of each kind).
TheCall(p, ev) == log[p][CHOOSE i \in At(p, ev) : TRUE]

\* The native connection of p's method lacks the interface it delegates to.
LacksCapability(p) ==
    \/ op[p].kind = "Conn.ExecContext" /\ "ExecerContext" \notin conns[op[p].recv]
    \/ op[p].kind = "Conn.QueryContext" /\ "QueryerContext" \notin conns[op[p].recv]

\* C3 as stated: on a native connection without the capability the call
\* fails with the capability error, the native connection is not called, and
\* none of Before, After, OnError is invoked.
C3_NoHookWithoutCapability ==
    \A p \in Procs :
        (Finished(p) /\ LacksCapability(p)) =>
            /\ op[p].err = MissingCapability(op[p])
            /\ Times(p, "Native.call") = 0
            /\ Times(p, "Before.call") = 0
            /\ Times(p, "After.call") = 0
            /\ Times(p, "OnError.call") = 0

\* C3 amended: on a native connection without the capability the native
\* connection is not called and After is not invoked; Before is invoked
\* once, and when it returns no error the capability error is handed to
\* OnError exactly once and the call returns a nil result with the error
\* OnError returns, which is the capability error under wrap()'s hooks.
C3_CapabilityErrorToOnError ==
    \A p \in Procs :
        (Finished(p) /\ LacksCapability(p)) =>
            /\ Times(p, "Native.call") = 0
            /\ Times(p, "After.call") = 0
            /\ Times(p, "Before.call") = 1
            /\ BeforeReturned(p, FALSE) =>
                  /\ Times(p, "OnError.call") = 1
                  /\ TheCall(p, "OnError.call").err =
                        IF op[p].kind = "Conn.ExecContext"
                        THEN <<"Conn does not implement driver.ExecerContext">>
                        ELSE <<"Conn does not implement driver.QueryerContext">>
                  /\ op[p].res = "nil"
                  /\ op[p].err = TheCall(p, "OnError.return").err
                  /\ hooks = "wrap" => op[p].err = TheCall(p, "OnError.call").err

\* QueryContext returned on a connection that is no driver.QueryerContext.
C3_Witness ==
    \E p \in Procs :
        /\ pc[p] = "returned" /\ op[p].kind = "Conn.QueryContext" /\ LacksCapability(p)
        /\ Times(p, "OnError.return") = 1

\* ------------------------------------------------------------------ C4
\* C4: when Before returns an error the call returns that error with a nil
\* result; the native method, After and OnError are not called.
C4_BeforeErrorReturned ==
    \A p \in Procs :
        (Hooked(p) /\ BeforeReturned(p, TRUE)) =>
            /\ pc[p] = "returned"
            /\ op[p].err = TheCall(p, "Before.return").err
            /\ op[p].res = "nil"
            /\ Times(p, "Native.call") = 0
            /\ Times(p, "After.call") = 0
            /\ Times(p, "OnError.call") = 0

\* ExecContext returned after Before failed.
C4_Witness ==
    \E p \in Procs :
        /\ pc[p] = "returned" /\ op[p].kind = "Conn.ExecContext"
        /\ BeforeReturned(p, TRUE) /\ op[p].err = ErrHook

\* ------------------------------------------------------------------ C5
\* C5 as stated: for any hook set, a native error e is the error the call
\* returns.
C5_NativeErrorReturned ==
    \A p \in Procs :
        (Hooked(p) /\ pc[p] = "returned" /\ NativeReturned(p, TRUE)) =>
            op[p].err = TheCall(p, "Native.return").err

\* C5 amended: a native error e is handed to OnError and the call returns
\* the error OnError returns for it; with the hook set built by wrap() that
\* error is e itself.
C5_NativeErrorThroughOnError ==
    \A p \in Procs :
        (Hooked(p) /\ pc[p] = "returned" /\ NativeReturned(p, TRUE)) =>
            /\ TheCall(p, "OnError.call").err = TheCall(p, "Native.return").err
            /\ op[p].err = TheCall(p, "OnError.return").err
            /\ hooks = "wrap" => /\ op[p].err = TheCall(p, "Native.return").err
                                 /\ op[p].err # Nil

\* Under wrap()'s hooks a call returned the skip sentinel of its native call.
C5_Witness ==
    \E p \in Procs :
        /\ hooks = "wrap" /\ Hooked(p) /\ pc[p] = "returned"
        /\ NativeReturned(p, TRUE) /\ op[p].err = ErrSkip

\* ------------------------------------------------------------------ C6
\* The chain of e holds the driver's skip sentinel.
IsSkip(e) == \E i \in 1..Len(e) : e[i] = "driver.ErrSkip"

\* C6: wrap()'s OnError, given the skip sentinel or an error wrapping it,
\* tags the span drop=true, not error=true, records no error, ends the span
\* and returns the error it was given; given any other error it tags
\* error=true, never drop, and returns the error it was given.
C6_SkipIsDropNotError ==
    \A p \in Procs :
        (hooks = "wrap" /\ Hooked(p) /\ pc[p] = "returned" /\ Times(p, "OnError.return") = 1) =>
            LET e == TheCall(p, "OnError.call").err
                span == spans[op[p].ctx.span]
            IN  /\ op[p].err = e
                /\ span.ended = 1
                /\ IF IsSkip(e)
                   THEN /\ <<"drop", TRUE>> \in span.attrs
                        /\ <<"error", TRUE>> \notin span.attrs
                        /\ span.errors = <<>>
                   ELSE /\ <<"error", TRUE>> \in span.attrs
                        /\ <<"drop", TRUE>> \notin span.attrs
                        /\ span.errors = <<e>>

\* wrap()'s OnError returned after it was handed an error wrapping ErrSkip.
C6_Witness ==
    \E p \in Procs :
        /\ hooks = "wrap" /\ Hooked(p) /\ pc[p] = "returned"
        /\ Times(p, "OnError.return") = 1
        /\ TheCall(p, "OnError.call").err = ErrWrappedSkip

\* ------------------------------------------------------------------ C7
\* C7 as stated: with wrap()'s hooks every Exec/Query call whose native
\* method returned returns too, without a panic, and returns the result and
\* the error the native method returned.
C7_WrapIsTransparent ==
    \A p \in Procs :
        (hooks = "wrap" /\ Hooked(p) /\ Times(p, "Native.return") = 1) =>
            /\ pc[p] # "panicked"
            /\ pc[p] = "returned" =>
                  /\ op[p].res = op[p].natRes
                  /\ op[p].err = TheCall(p, "Native.return").err

\* ------------------------------------------------------------------ C8
\* C8: when the native call succeeded and After returns an error e, the
\* call returns e itself and OnError is not invoked.
C8_AfterErrorReturned ==
    \A p \in Procs :
        (Hooked(p) /\ pc[p] = "returned" /\ NativeReturned(p, FALSE)
           /\ \E i \in At(p, "After.return") : log[p][i].err # Nil) =>
            /\ op[p].err = TheCall(p, "After.return").err
            /\ Times(p, "OnError.call") = 0

\* A statement's ExecContext returned the error of its After hook.
C8_Witness ==
    \E p \in Procs :
        /\ pc[p] = "returned" /\ op[p].kind = "Stmt.ExecContext"
        /\ NativeReturned(p, FALSE)
        /\ Times(p, "After.return") = 1 /\ TheCall(p, "After.return").err = ErrHook

\* ------------------------------------------------------------------ C9
\* C9: the terminal hook gets the query text and the argument list Before
\* got, and that list is the Value of every NamedValue of the call, as many
\* and in the same order, whatever their names and ordinals.
C9_SameQueryAndArgs ==
    \A p \in Procs :
        Hooked(p) =>
            LET first == TheCall(p, "Before.call")
            IN  /\ Len(first.args) = Len(op[p].args)
                /\ \A k \in 1..Len(op[p].args) : first.args[k] = op[p].args[k].Value
                /\ op[p].kind \in ConnKindsOfOp => first.query = op[p].query
                /\ \A i \in At(p, "After.call") \cup At(p, "OnError.call") :
                       /\ log[p][i].query = first.query
                       /\ log[p][i].args = first.args

\* A call with a named and a positional value, given out of ordinal order,
\* reached its terminal hook.
C9_Witness ==
    \E p \in Procs :
        /\ pc[p] = "returned" /\ Hooked(p)
        /\ op[p].args = << NV("", 2, "b"), NV("k", 1, "a") >>
        /\ Times(p, "After.call") = 1

\* ------------------------------------------------------------------ C10
\* C10: every hook a statement's ExecContext or QueryContext invokes gets
\* the query text that was given to the PrepareContext call that made the
\* statement.
C10_PreparedTextKept ==
    \A p \in Procs :
        op[p].kind \in StmtKindsOfOp =>
            \A i \in 1..Len(log[p]) :
                log[p][i].ev \in HookCalls => log[p][i].query = prepared[op[p].recv]

\* A call on the second of two statements prepared with different texts
\* reached its terminal hook.
C10_Witness ==
    \E p \in Procs :
        /\ pc[p] = "returned" /\ op[p].kind = "Stmt.ExecContext" /\ op[p].recv = 2
        /\ prepared[1] = QInsert /\ prepared[2] = QSelect
        /\ Times(p, "After.call") + Times(p, "OnError.call") = 1

\* ------------------------------------------------------------------ transactions
\* The clock goes as far as MaxTime; a transaction begun at 0 or 1 can outlast
\* the default threshold.
MaxTime == 4

\* The durations SetLongTxThreshold is called with, in seconds.
LongTxChoices == {1, LongTxSeconds}

\* Time passes, up to a limit.
TickTo(limit) ==
    /\ now < limit
    /\ now' = now + 1
    /\ UNCHANGED <<others, hooks, conns, stmts, prepared, txs, spans, libraryCounter, auditLog,
                   slowSqlThreshold, longTxThreshold, pc, op, log>>

Tick == TickTo(MaxTime)

\* SetLongTxThreshold
SetLongTxThreshold ==
    /\ \E d \in LongTxChoices : longTxThreshold' = d
    /\ UNCHANGED <<others, hooks, conns, stmts, prepared, txs, spans, libraryCounter, auditLog,
                   slowSqlThreshold, now, pc, op, log>>

\* One goroutine opens connections, prepares statements, begins and ends
\* transactions while time passes and the threshold is reconfigured.
StepTx(p) ==
    \/ Open(p)
    \/ PrepareContext(p)
    \/ BeginTx(p)
    \/ Commit(p)
    \/ Rollback(p)
    \/ Done(p)

NextTx ==
    \/ StepTx("g1")
    \/ Tick
    \/ SetLongTxThreshold

SpecTx == Init /\ [][NextTx]_vars

\* Goroutine p's Commit or Rollback of transaction t runs in this step.
TxFinishes(p, t) ==
    /\ pc[p] = "idle" /\ pc'[p] = "returned"
    /\ op'[p].kind \in {"DriverTx.Commit", "DriverTx.Rollback"}
    /\ op'[p].recv = t

LongTxAttrs(elapsed) == { <<"longtx", TRUE>>, <<"tx_duration_ms", elapsed * 1000>> }

\* ------------------------------------------------------------------ C11
\* C11: a Commit or Rollback of a wrapped transaction, whatever the native
\* method returns, sets longtx=true and tx_duration_ms (the elapsed time in
\* milliseconds) on the span of the context given to BeginTx when the time
\* since BeginTx is at least the transaction's threshold, and sets nothing
\* on any span when it is below.
C11_LongTxFlagged ==
    [][\A p \in Procs : \A t \in 1..Len(txs) :
          TxFinishes(p, t) =>
              LET elapsed == now - txs[t].start
                  span == txs[t].ctx.span
              IN  IF span # 0 /\ elapsed >= txs[t].longTxThreshold
                  THEN /\ LongTxAttrs(elapsed) \subseteq spans'[span].attrs
                       /\ \A kv \in spans'[span].attrs :
                              kv[1] = "tx_duration_ms" => kv[2] = elapsed * 1000
                  ELSE spans' = spans]_vars

\* A Commit whose native method failed, of a transaction that lasted exactly
\* its threshold, has flagged the request's span.
C11_Witness ==
    \E p \in Procs :
        /\ pc[p] = "returned" /\ op[p].kind = "DriverTx.Commit" /\ op[p].err # Nil
        /\ now - txs[op[p].recv].start = txs[op[p].recv].longTxThreshold
        /\ txs[op[p].recv].ctx.span = 1
        /\ LongTxAttrs(now - txs[op[p].recv].start) \subseteq spans[1].attrs

\* ------------------------------------------------------------------ C13
\* C13: a PrepareContext or BeginTx on a connection whose native connection
\* lacks the capability returns an error and no statement or transaction,
\* calls nothing on the native connection and no hook, and makes no wrapper
\* object.
C13_NoCapabilityNoCall ==
    [][\A p \in Procs :
          /\ pc[p] = "idle" /\ pc'[p] = "returned"
          /\ \/ op'[p].kind = "Conn.PrepareContext" /\ "ConnPrepareContext" \notin conns[op'[p].recv]
             \/ op'[p].kind = "Conn.BeginTx" /\ "ConnBeginTx" \notin conns[op'[p].recv]
          => /\ op'[p].err # Nil
             /\ op'[p].res = NoOp.res /\ op'[p].made = 0
             /\ log'[p] = <<>>
             /\ stmts' = stmts /\ txs' = txs /\ prepared' = prepared]_vars

\* A BeginTx on a connection that cannot begin transactions has returned.
C13_Witness ==
    \E p \in Procs :
        /\ pc[p] = "returned" /\ op[p].kind = "Conn.BeginTx"
        /\ "ConnBeginTx" \notin conns[op[p].recv]
        /\ op[p].err = CapabilityError("Conn", "ConnBeginTx")

\* ------------------------------------------------------------------ driver registration
\* The constructor calls made in one process.
MaxNew == 3

BusinessNames == {"a", "b"}

\* Connect URLs: one mysql.ParseDSN accepts, one it rejects (no '/' before
\* the database name).
DsnOK == "root:root@tcp(127.0.0.1:3306)/goapm"
DsnBad == "root:root@tcp(127.0.0.1:3306)"
ConnectURLs == {DsnOK, DsnBad}

\* (a slip: every URL taken for good)
ParseDSNNeverFails(connectURL) == FALSE

\* mysql.ParseDSN(connectURL) returns an error.
ParseDSNFails(connectURL) == connectURL = DsnBad

\* uuid.NewString(): 122 random bits, taken never to repeat within a process;
\* the n-th call of a constructor draws the n-th value.
NewString == Len(dbs) + 1

\* fmt.Sprintf("%s-%s", "mysql-wrapper", uuid.NewString())
DriverName(uuid) == <<"mysql-wrapper", uuid>>

\* The key go-sql-driver/mysql registers itself under, which
\* gorm.io/driver/mysql opens when its Config names no driver.
PlainMySQL == <<"mysql">>

Registered(reg) == {reg[i].key : i \in 1..Len(reg)}

NoKey == <<>>

\* One constructor call: what it registered and what it returned.
NewCall(by, name, connectURL, key, db, err, panicked) ==
    [by |-> by, name |-> name, connectURL |-> connectURL, key |-> key, db |-> db,
     err |-> err, panicked |-> panicked]

\* sql.Open(driverName, connectURL) in NewMySQL
OpensRegistered(key) == key

\* gormDialector overrides Name() only: gorm.Open calls the Initialize of the
\* embedded mysql.Open(connectURL) dialector, whose Config has no DriverName,
\* so the pool is sql.Open("mysql", dsn).
OpensEmbedded(key) == PlainMySQL

\* The key the handle of constructor `by` opens.
Opens(by, key) == IF by = "NewGorm" THEN OpensEmbedded(key) ELSE OpensRegistered(key)

\* The part NewMySQL and newGormDialector share: draw a key, build the
\* wrapped driver (wrap panics on a URL it cannot parse), register it
\* (sql.Register panics on a key in use); then open a handle on the key
\* the constructor opens and ping it.
Construct(by, name, connectURL) ==
    LET key == DriverName(NewString)
    IN  /\ Len(dbs) < MaxNew
        /\ IF ParseDSNFails(connectURL) \/ key \in Registered(drivers)
           THEN /\ drivers' = drivers
                /\ dbs' = Append(dbs, NewCall(by, name, connectURL, NoKey, NoKey, Nil, TRUE))
           ELSE /\ drivers' = Append(drivers, [key |-> key, driver |-> <<"wrap", name, connectURL>>])
                /\ \/ dbs' = Append(dbs, NewCall(by, name, connectURL, key, Opens(by, key), Nil, FALSE))
                   \/ dbs' = Append(dbs, NewCall(by, name, connectURL, key, NoKey, ErrBadConn, FALSE))
        /\ UNCHANGED wrapperVars

\* NewMySQL
NewMySQL ==
    /\ \E name \in BusinessNames, connectURL \in ConnectURLs :
          Construct("NewMySQL", name, connectURL)
    /\ UNCHANGED <<closerVars, clientVars, serveVars>>

\* NewGorm
NewGorm ==
    /\ \E name \in BusinessNames, connectURL \in ConnectURLs :
          Construct("NewGorm", name, connectURL)
    /\ UNCHANGED <<closerVars, clientVars, serveVars>>

NextRegistry == NewMySQL \/ NewGorm

SpecRegistry == Init /\ [][NextRegistry]_vars

\* ------------------------------------------------------------------ C12
\* C12: every NewMySQL or NewGorm call that registers a driver registers it
\* under a key no earlier registration used, and the handle it returns opens
\* its connections through the driver registered under that key.
C12_OwnFreshKey ==
    /\ \A i, j \in 1..Len(drivers) : drivers[i].key = drivers[j].key => i = j
    /\ \A i \in 1..Len(dbs) :
          /\ dbs[i].key # NoKey => \E d \in 1..Len(drivers) :
                                      /\ drivers[d].key = dbs[i].key
                                      /\ drivers[d].driver = <<"wrap", dbs[i].name, dbs[i].connectURL>>
          /\ dbs[i].db # NoKey => dbs[i].db = dbs[i].key

\* ------------------------------------------------------------------ concurrent calls
\* Spans two goroutines can have started, and how far the clock goes
\* (past the slow-SQL threshold), while they run hooked methods at once.
MaxConcSpans == 2
MaxConcTime == 2

ConcSpanLeft == Len(spans) + Cardinality({q \in Procs : pc[q] = "Before"}) < 1 + MaxConcSpans

\* Conn.ExecContext with one text and no arguments
ConcExecContext(p) ==
    \E c \in 1..Len(conns) :
        EnterIf(ConcSpanLeft, p, "Conn.ExecContext", c, RequestCtx, QInsert, <<>>)

\* Stmt.QueryContext with no arguments
ConcQueryContext(p) ==
    \E s \in 1..Len(stmts) :
        EnterIf(ConcSpanLeft, p, "Stmt.QueryContext", s, RequestCtx, "", <<>>)

StepConc(p) ==
    \/ ConcExecContext(p)
    \/ ConcQueryContext(p)
    \/ BeforeReturns(p)
    \/ NativeReturns(p)
    \/ AfterReturns(p)
    \/ OnErrorReturns(p)
    \/ Done(p)

\* A connection has been opened and, where the native connection can
\* prepare, a statement prepared on it.
InitConc ==
    /\ \E k \in ConnKinds :
          /\ conns = << k >>
          /\ stmts = IF Implements(k, "ConnPrepareContext")
                     THEN << NewStmt(NativeStmtOf(k), QSelect) >> ELSE <<>>
          /\ prepared = IF Implements(k, "ConnPrepareContext") THEN << QSelect >> ELSE <<>>
    /\ InitRest

\* Both goroutines call hooked methods in any interleaving while time passes.
NextConc ==
    \/ \E p \in Procs : StepConc(p)
    \/ TickTo(MaxConcTime)

SpecConc == InitConc /\ [][NextConc]_vars

\* The hook and native calls of a hooked method that runs alone, by outcome.
LoneRuns ==
    { << "Before.call", "Before.return" >>,
      << "Before.call", "Before.return", "OnError.call", "OnError.return" >>,
      << "Before.call", "Before.return", "Native.call", "Native.return",
         "OnError.call", "OnError.return" >>,
      << "Before.call", "Before.return", "Native.call", "Native.return",
         "After.call", "After.return" >>,
      << "Before.call", "Before.return", "Native.call", "Native.return",
         "After.call", "After.panic" >> }

Calls(p) == [i \in 1..Len(log[p]) |-> log[p][i].ev]

\* Goroutine p is between the Before and the terminal hook of wrap().
InFlight(p) == hooks = "wrap" /\ Hooked(p) /\ pc[p] \in {"Native", "After", "OnError"}

\* ------------------------------------------------------------------ C14
\* C14: however the hooked methods of two goroutines interleave, each
\* method makes the calls it makes when it runs alone; its Before stores the
\* time of its own call and starts a span of its own; its terminal hook is
\* handed that context, measures from that time, ends that span once and
\* leaves every other span as it is.
C14_CallsIndependent ==
    [][\A p \in Procs :
          /\ (Hooked(p) /\ pc[p] # "returned" /\ pc'[p] = "returned") => Calls(p)' \in LoneRuns
          /\ (hooks = "wrap" /\ pc[p] = "Before" /\ pc'[p] # "Before") =>
                /\ op'[p].ctx.begin = now
                /\ op'[p].ctx.span = Len(spans) + 1
                /\ Len(spans') = Len(spans) + 1
                /\ \A q \in Procs \ {p} : InFlight(q) => op[q].ctx.span # op'[p].ctx.span
                /\ \A id \in 1..Len(spans) : spans'[id] = spans[id]
          /\ (InFlight(p) /\ pc[p] \in {"After", "OnError"} /\ pc'[p] # pc[p]) =>
                LET mine == TheCall(p, "Before.return").ctx
                    elapsed == now - mine.begin
                IN  /\ TheCall(p, pc[p] \o ".call").ctx = mine
                    /\ Len(spans') = Len(spans)
                    /\ \A id \in 1..Len(spans) : id # mine.span => spans'[id] = spans[id]
                    /\ pc'[p] = "returned" =>
                          /\ spans[mine.span].ended = 0 /\ spans'[mine.span].ended = 1
                          /\ pc[p] = "After" =>
                                (<<"slowsql", TRUE>> \in spans'[mine.span].attrs
                                    <=> elapsed > slowSqlThreshold)]_vars

\* A call on a statement and a later call on a connection are under way at
\* once; the earlier one has ended its span, as a slow one, while the later
\* one still waits for its native method.
C14_Witness ==
    \E p, q \in Procs :
        /\ InFlight(p) /\ pc[p] = "Native" /\ op[p].kind = "Conn.ExecContext"
        /\ hooks = "wrap" /\ pc[q] = "returned" /\ op[q].kind = "Stmt.QueryContext"
        /\ op[p].ctx.begin > op[q].ctx.begin
        /\ op[p].ctx.span # op[q].ctx.span
        /\ spans[op[p].ctx.span].ended = 0
        /\ spans[op[q].ctx.span].ended = 1
        /\ <<"slowsql", TRUE>> \in spans[op[q].ctx.span].attrs

\* ------------------------------------------------------------------ the table-labelled counter
\* The statements one goroutine executes on a connection of a driver built
\* by wrap(): single-table ones of each kind, ones naming two tables in a
\* list, a join and a subquery, one that does not parse and one of a kind
\* parseTable does not support.
CountTexts == {QInsert, QSelectT, QUpdate, QDelete, QComma, QJoin, QSub, QParen, QGarbage, QBad}

\* Conn.ExecContext, without arguments
CountExecContext(p) ==
    \E c \in 1..Len(conns), query \in CountTexts :
        EnterIf(ConcSpanLeft, p, "Conn.ExecContext", c, RequestCtx, query, <<>>)

\* Conn.QueryContext, without arguments
CountQueryContext(p) ==
    \E c \in 1..Len(conns), query \in CountTexts :
        EnterIf(ConcSpanLeft, p, "Conn.QueryContext", c, RequestCtx, query, <<>>)

NextCount ==
    \/ CountExecContext("g1")
    \/ CountQueryContext("g1")
    \/ BeforeReturns("g1")
    \/ NativeReturns("g1")
    \/ AfterReturns("g1")
    \/ OnErrorReturns("g1")
    \/ Done("g1")

SpecCount == InitConc /\ [][NextCount]_vars

\* What the statements are, read off their texts.
SingleTableTexts == {QInsert, QSelectT, QUpdate, QDelete}
TwoTableTexts == {QComma, QJoin, QSub, QParen}
UnparsedTexts == {QGarbage}

\* The calls counted under the labels of one table.
CountOf(counter, table) ==
    LET at == {i \in 1..Len(counter) : counter[i].labels[3] = table}
    IN  IF at = {} THEN 0 ELSE counter[CHOOSE i \in at : TRUE].n

TablesOf(counter) == {counter[i].labels[3] : i \in 1..Len(counter)}

\* From counter c to counter d, one call was counted, under table.
CountedOnce(c, d, table) ==
    /\ CountOf(d, table) = CountOf(c, table) + 1
    /\ \A t \in (TablesOf(c) \cup TablesOf(d)) \ {table} : CountOf(d, t) = CountOf(c, t)

\* The After hook of wrap() runs in this step of goroutine p, on this text.
AfterRuns(p, sql) ==
    /\ hooks = "wrap" /\ pc[p] = "After" /\ pc'[p] # "After"
    /\ TheCall(p, "After.call").query = sql

\* ------------------------------------------------------------------ C16
\* C16: the After hook of wrap() counts a single-table INSERT,
\* UPDATE, DELETE or SELECT once, under its table, and counts nothing for a
\* statement that refers to more than one table or does not parse.
C16_CountedUnlessTwoTables ==
    [][\A p \in Procs :
          /\ \A sql \in SingleTableTexts :
                AfterRuns(p, sql) => CountedOnce(libraryCounter, libraryCounter', "t")
          /\ \A sql \in TwoTableTexts \cup UnparsedTexts :
                AfterRuns(p, sql) => libraryCounter' = libraryCounter]_vars

\* ------------------------------------------------------------------ Infra: closers
\* The functions registered on one Infra, and the calls of Stop.
MaxFuncs == 3
MaxStops == 2

\* Each registration hands over a function of its own: the n-th registered
\* is n.  The functions do not call back into the Infra.
NewFunc == Len(deferFuncs) + 1

CanRegister == stopAt = -1 /\ Len(deferFuncs) < MaxFuncs

\* `append(infra.deferFuncs, fn)`
PutLast(fs, fn) == Append(fs, fn)

\* (a slip: the function put at the end)
PutFirstAtEnd(fs, fn) == Append(fs, fn)

\* `append([]func(){fn}, infra.deferFuncs...)`
PutFirst(fs, fn) == << fn >> \o fs

\* An option or method that registers a function at the end of the list.
Appends ==
    /\ CanRegister
    /\ deferFuncs' = PutLast(deferFuncs, NewFunc)
    /\ UNCHANGED <<wrapperVars, registryVars, clientVars, serveVars,
                   invoked, stopAt, stopFrom, stops, upg, prepended>>

\* WithCloser, applied by NewInfra
WithCloser == Appends

\* WithAPM, applied by NewInfra: the close function of apm.NewAPM
WithAPM == Appends

\* WithAutoPProf, applied by NewInfra: the function that stops the dumper
WithAutoPProf == Appends

\* Infra.Defer
Defer == Appends

\* WithTableflip, applied by NewInfra: the function that stops the upgrader
\* goes to the front.  tableflip.New gives one upgrader per process.
WithTableflip ==
    /\ CanRegister
    /\ upg = 0
    /\ upg' = NewFunc
    /\ deferFuncs' = PutFirst(deferFuncs, NewFunc)
    /\ prepended' = prepended \cup {NewFunc}
    /\ UNCHANGED <<wrapperVars, registryVars, clientVars, serveVars,
                   invoked, stopAt, stopFrom, stops>>

\* Infra.PrependDefer
PrependDefer ==
    /\ CanRegister
    /\ deferFuncs' = PutFirst(deferFuncs, NewFunc)
    /\ prepended' = prepended \cup {NewFunc}
    /\ UNCHANGED <<wrapperVars, registryVars, clientVars, serveVars,
                   invoked, stopAt, stopFrom, stops, upg>>

\* (a slip: the loop started one short)
StopLoopFromSecondLast(fs) == Len(fs) - 1

\* `for i := len(infra.deferFuncs) - 1`: the index Stop starts from,
\* counted from 1.
StopLoopFrom(fs) == Len(fs)

\* Infra.Stop is called.
StopCalled ==
    /\ stopAt = -1
    /\ stops < MaxStops
    /\ stopAt' = IF deferFuncs = <<>> THEN 0 ELSE StopLoopFrom(deferFuncs)
    /\ stopFrom' = Len(invoked)
    /\ stops' = stops + 1
    /\ UNCHANGED <<wrapperVars, registryVars, clientVars, serveVars, deferFuncs, invoked,
                   upg, prepended>>

\* One turn of Stop's loop: `infra.deferFuncs[i]()`, `i--`.
StopInvokes ==
    /\ stopAt >= 1
    /\ invoked' = Append(invoked, deferFuncs[stopAt])
    /\ stopAt' = stopAt - 1
    /\ UNCHANGED <<wrapperVars, registryVars, clientVars, serveVars, deferFuncs, stopFrom, stops,
                   upg, prepended>>

\* (a slip: the list emptied when Stop is through)
StoppedCleared(fs) == <<>>

\* The list Stop leaves behind: Stop assigns nothing to infra.deferFuncs.
Stopped(fs) == fs

\* Infra.Stop returns.
StopReturns ==
    /\ stopAt = 0
    /\ stopAt' = -1
    /\ deferFuncs' = Stopped(deferFuncs)
    /\ UNCHANGED <<wrapperVars, registryVars, clientVars, serveVars, invoked, stopFrom, stops,
                   upg, prepended>>

NextClosers ==
    \/ WithCloser
    \/ WithAPM
    \/ WithAutoPProf
    \/ WithTableflip
    \/ Defer
    \/ PrependDefer
    \/ StopCalled
    \/ StopInvokes
    \/ StopReturns

SpecClosers == Init /\ [][NextClosers]_vars

\* How often f was invoked since Stop was last called.
InvokedByStop(f) == Cardinality({k \in (stopFrom + 1)..Len(invoked) : invoked[k] = f})

\* ------------------------------------------------------------------ C17
\* C17: no function registered with WithCloser, Defer or PrependDefer is
\* invoked while Stop has not been called, none is invoked outside a call
\* of Stop, and when a call of Stop returns it has invoked each registered
\* function exactly once.
C17_ClosersOncePerStop ==
    [][/\ stops = 0 => invoked = <<>>
       /\ invoked' # invoked => stopAt # -1 /\ stops >= 1
       /\ (stopAt # -1 /\ stopAt' = -1) =>
              \A f \in 1..Len(deferFuncs) : InvokedByStop(f) = 1]_vars

\* Stop has returned twice; the function prepended between the two calls
\* ran last in the second.
C17_Witness ==
    /\ stops = 2 /\ stopAt = -1
    /\ deferFuncs = <<3, 1, 2>>
    /\ invoked = <<2, 1, 2, 1, 3>>

\* ------------------------------------------------------------------ Infra: clients
\* The client options applied to one Infra.
MaxOptions == 4

\* `infra.mysqls[name] = db`
Put(map, name, client) ==
    [n \in DOMAIN map \cup {name} |-> IF n = name THEN client ELSE map[n]]

\* (a slip: no look at the map)
ExistsNever(map, name) == FALSE

\* `infra.mysqls[name] != nil`
Exists(map, name) == name \in DOMAIN map

\* How an option ended: by a panic or not, with or without a call of the
\* client's constructor.
Applied(opt, name, panicked, made) ==
    [opt |-> opt, name |-> name, panicked |-> panicked, made |-> made]

\* WithMySQL and WithGorm: panic on a name in use, else call the constructor,
\* panic on its error, else store the client.
WithSQL(opt, by, map, name, addr) ==
    /\ optsApplied < MaxOptions
    /\ optsApplied' = optsApplied + 1
    /\ IF Exists(map, name)
       THEN /\ lastOpt' = Applied(opt, name, TRUE, FALSE)
            /\ UNCHANGED <<wrapperVars, registryVars>>
       ELSE /\ Construct(by, name, addr)
            /\ lastOpt' = Applied(opt, name, dbs'[Len(dbs')].db = NoKey, TRUE)
    /\ UNCHANGED <<closerVars, serveVars, redisMade>>

\* The map after WithSQL: the client is stored when the constructor returned one.
Stored(map, name) ==
    IF lastOpt'.made /\ ~lastOpt'.panicked THEN Put(map, name, Len(dbs')) ELSE map

\* WithMySQL
WithMySQL ==
    \E name \in BusinessNames, addr \in ConnectURLs :
        /\ WithSQL("WithMySQL", "NewMySQL", mysqls, name, addr)
        /\ mysqls' = Stored(mysqls, name)
        /\ UNCHANGED <<gorms, redisV6s, redisV9s>>

\* WithGorm
WithGorm ==
    \E name \in BusinessNames, addr \in ConnectURLs :
        /\ WithSQL("WithGorm", "NewGorm", gorms, name, addr)
        /\ gorms' = Stored(gorms, name)
        /\ UNCHANGED <<mysqls, redisV6s, redisV9s>>

\* WithRedisV6 and WithRedisV9: the same, around NewRedisV6 and NewRedisV9,
\* which return a client or the error of the first PING.
WithRedis(opt, by, map, name, err) ==
    /\ optsApplied < MaxOptions
    /\ optsApplied' = optsApplied + 1
    /\ IF Exists(map, name)
       THEN /\ lastOpt' = Applied(opt, name, TRUE, FALSE)
            /\ redisMade' = redisMade
       ELSE /\ Len(redisMade) < MaxNew
            /\ redisMade' = Append(redisMade, [by |-> by, name |-> name, err |-> err])
            /\ lastOpt' = Applied(opt, name, err # Nil, TRUE)
    /\ UNCHANGED <<wrapperVars, registryVars, closerVars, serveVars>>

StoredRedis(map, name) ==
    IF lastOpt'.made /\ ~lastOpt'.panicked THEN Put(map, name, Len(redisMade')) ELSE map

\* WithRedisV6
WithRedisV6 ==
    \E name \in BusinessNames, err \in {Nil, ErrBadConn} :
        /\ WithRedis("WithRedisV6", "NewRedisV6", redisV6s, name, err)
        /\ redisV6s' = StoredRedis(redisV6s, name)
        /\ UNCHANGED <<mysqls, gorms, redisV9s>>

\* WithRedisV9
WithRedisV9 ==
    \E name \in BusinessNames, err \in {Nil, ErrBadConn} :
        /\ WithRedis("WithRedisV9", "NewRedisV9", redisV9s, name, err)
        /\ redisV9s' = StoredRedis(redisV9s, name)
        /\ UNCHANGED <<mysqls, gorms, redisV6s>>

NextClients ==
    \/ WithMySQL
    \/ WithGorm
    \/ WithRedisV6
    \/ WithRedisV9

SpecClients == Init /\ [][NextClients]_vars

\* The map an option looks its name up in.
MapOf(opt) ==
    CASE opt = "WithMySQL" -> mysqls
      [] opt = "WithGorm" -> gorms
      [] opt = "WithRedisV6" -> redisV6s
      [] opt = "WithRedisV9" -> redisV9s

\* ------------------------------------------------------------------ C20
\* C20: a client option applied with a name its own map holds panics
\* without calling a constructor and leaves every map as it is; applied
\* with a name its own map does not hold it calls its constructor, whatever
\* the maps of the other client kinds hold.
C20_DuplicateNamePanics ==
    [][optsApplied' # optsApplied =>
          IF lastOpt'.name \in DOMAIN MapOf(lastOpt'.opt)
          THEN /\ lastOpt'.panicked /\ ~lastOpt'.made
               /\ UNCHANGED <<drivers, dbs, redisMade, mysqls, gorms, redisV6s, redisV9s>>
          ELSE lastOpt'.made]_vars

\* WithGorm has panicked on the name a, which the maps of three client
\* kinds hold.
C20_Witness ==
    /\ lastOpt = Applied("WithGorm", "a", TRUE, FALSE)
    /\ "a" \in DOMAIN gorms /\ "a" \in DOMAIN mysqls /\ "a" \in DOMAIN redisV9s

\* ------------------------------------------------------------------ Gin, gRPC, Redis
\* The panic hooks one GinOtel is given, and the calls handled.
MaxHooks == 2
MaxCalls == 2

MetricTypeHTTP == "http"
MetricTypeGRPC == "grpc"

\* The options are applied by GinOtel(opts...), before the handler it
\* returns serves a request.
Configuring == handled = 0 /\ serving = NoCall

Configure(o) ==
    /\ Configuring
    /\ ginOpts' = o
    /\ UNCHANGED <<wrapperVars, registryVars, closerVars, clientVars,
                   serving, handled, serverHandleCounter, serverHandleHistogram>>

\* WithPanicHook: a hook is modelled by what it returns (stop).
WithPanicHook ==
    /\ Len(ginOpts.panicHooks) < MaxHooks
    /\ \E stop \in BOOLEAN : Configure([ginOpts EXCEPT !.panicHooks = Append(@, stop)])

\* WithRecordResponse
WithRecordResponse == Configure([ginOpts EXCEPT !.recordResponse = "set"])

\* WithResponseFormat
WithResponseFormat == Configure([ginOpts EXCEPT !.formatResponse = "set"])

\* WithRecordResponseWhenLogrusError
WithRecordResponseWhenLogrusError ==
    \E record \in BOOLEAN : Configure([ginOpts EXCEPT !.recordResponseWhenLogrusError = record])

\* WithFilterRecordResponse
WithFilterRecordResponse == Configure([ginOpts EXCEPT !.filterRecordResponse = "set"])

\* The sum of a counter vector, or the observations of a histogram vector.
RECURSIVE Total(_)
Total(vec) == IF vec = <<>> THEN 0 ELSE Head(vec).n + Total(Tail(vec))

\* A call is taken up: what every component notes on entry.
Taken(by) ==
    [by |-> by, pc |-> "handler",
     span |-> Start(<<>>, Background),
     incsBefore |-> Total(serverHandleCounter),
     obsBefore |-> Total(serverHandleHistogram)]

ServeFrame == UNCHANGED <<wrapperVars, registryVars, closerVars, clientVars, ginOpts>>

\* What a predicate option returns for a request: false stands for "not set".
Answers(option) == IF option = "set" THEN BOOLEAN ELSE {FALSE}

\* The handler GinOtel returns, up to c.Next(): the predicates are asked, the
\* body writer is put in place, the counter is incremented, the span started.
GinEnters ==
    /\ serving = NoCall /\ handled < MaxCalls
    /\ \E recordAnswer \in Answers(ginOpts.recordResponse),
          filterAnswer \in Answers(ginOpts.filterRecordResponse) :
         LET mayRecordResponse == ginOpts.recordResponseWhenLogrusError
             recordResponse == recordAnswer
             mustNotRecordResponse == filterAnswer
         IN  serving' = Taken("gin") @@
                 [recordAnswer |-> recordAnswer, filterAnswer |-> filterAnswer,
                  mayRecordResponse |-> mayRecordResponse,
                  recordResponse |-> recordResponse,
                  mustNotRecordResponse |-> mustNotRecordResponse,
                  blw |-> ~mustNotRecordResponse /\ (mayRecordResponse \/ recordResponse),
                  logged |-> FALSE, written |-> FALSE, body |-> "", panic |-> FALSE,
                  hooked |-> <<>>, status |-> 0, wire |-> 0]
    /\ handled' = handled + 1
    /\ serverHandleCounter' = Inc(serverHandleCounter, <<MetricTypeHTTP, "GET./test", "", "">>)
    /\ UNCHANGED serverHandleHistogram
    /\ ServeFrame

\* Whether the handler logs an error with the request's context: the logrus
\* hook then sets errorLogKey on the gin context, where it stays.
ErrorLogs == BOOLEAN

\* c.Next(): the request's handler may log an error with the request's
\* context, may write the response (status 200 and a body), and returns or
\* panics.
GinHandler ==
    /\ serving.by = "gin" /\ serving.pc = "handler"
    /\ \E logs \in ErrorLogs, writes \in BOOLEAN, panics \in BOOLEAN :
         serving' = [serving EXCEPT !.pc = "deferred", !.logged = logs, !.written = writes,
                                    !.wire = IF writes THEN 200 ELSE 0,
                                    !.body = IF writes THEN "Hello, World!" ELSE "",
                                    !.panic = panics]
    /\ UNCHANGED <<handled, serverHandleCounter, serverHandleHistogram>>
    /\ ServeFrame

\* (a slip: every hook run)
RunHooksAll(panicHooks, i) == [k \in 1..Len(panicHooks) |-> k]

\* `for _, hook := range o.panicHooks { if hook(c, err, stack) { break } }`:
\* the hooks invoked, from the i-th on.
RECURSIVE RunHooks(_, _)
RunHooks(panicHooks, i) ==
    IF i > Len(panicHooks) THEN <<>>
    ELSE IF panicHooks[i] THEN << i >>
    ELSE << i >> \o RunHooks(panicHooks, i + 1)

\* (a slip: the error flag not looked at)
FlaggedRecordAlways(mustNot, record, may, flagged) ==
    IF ~mustNot /\ ~record /\ may THEN TRUE ELSE record

\* `if !mustNotRecordResponse && !recordResponse && mayRecordResponse {
\*      if _, ok := c.Get(errorLogKey); ok { recordResponse = true } }`
FlaggedRecord(mustNot, record, may, flagged) ==
    IF ~mustNot /\ ~record /\ may /\ flagged THEN TRUE ELSE record

\* c.Writer.Status() after c.AbortWithStatus(500): 500 when the header was
\* still unwritten; when the handler had written it, gin keeps 200 or takes
\* 500, by its version.
StatusAfterAbort(written) == IF written THEN {200, 500} ELSE {500}

\* The deferred function of the handler GinOtel returns.
GinDeferred ==
    /\ serving.by = "gin" /\ serving.pc = "deferred"
    /\ \E status \in (IF serving.panic THEN StatusAfterAbort(serving.written) ELSE {200}) :
         LET c == serving
             recovered == IF c.panic
                          THEN RecordError(SetAttributes(c.span, 1,
                                   { <<"error", TRUE>>, <<"http.request.path", "/test">>,
                                     <<"http.request.method", "GET">> }), 1, <<"panic">>)
                          ELSE c.span
             wire == IF c.written THEN c.wire ELSE IF c.panic THEN 500 ELSE 200
             coded == SetAttributes(recovered, 1, { <<"http.response.code", status>> })
             recordResponse == FlaggedRecord(c.mustNotRecordResponse, c.recordResponse,
                                             c.mayRecordResponse, c.logged)
             body == IF ginOpts.formatResponse = "set" THEN "formatted: " \o c.body ELSE c.body
             pinned == IF ~c.mustNotRecordResponse /\ recordResponse
                       THEN SetAttributes(coded, 1, { <<"pinned", TRUE>>,
                                                      <<"http.response.body", body>> })
                       ELSE coded
         IN  /\ serving' = [c EXCEPT !.pc = "done", !.status = status, !.wire = wire,
                                     !.hooked = IF c.panic THEN RunHooks(ginOpts.panicHooks, 1)
                                                ELSE <<>>,
                                     !.span = End(pinned, 1)]
             /\ serverHandleHistogram' =
                    Inc(serverHandleHistogram, <<MetricTypeHTTP, "GET./test", status, "", "">>)
    /\ UNCHANGED <<handled, serverHandleCounter>>
    /\ ServeFrame

\* unaryServerInterceptor, up to the call of the handler
GrpcEnters ==
    /\ serving = NoCall /\ handled < MaxCalls
    /\ serving' = Taken("grpc") @@ [statusCode |-> "OK", err |-> Nil, panic |-> FALSE,
                                    observed |-> <<>>]
    /\ handled' = handled + 1
    /\ serverHandleCounter' = Inc(serverHandleCounter, <<MetricTypeGRPC, "/svc/Method", "", "">>)
    /\ UNCHANGED serverHandleHistogram
    /\ ServeFrame

\* What a gRPC handler does: return no error, a status error, an error
\* that is no status, or panic.
GrpcOutcomes ==
    { [err |-> Nil, code |-> "OK", ok |-> TRUE, panic |-> FALSE],
      [err |-> <<"rpc error: code = NotFound">>, code |-> "NotFound", ok |-> TRUE, panic |-> FALSE],
      [err |-> ErrOther, code |-> "Unknown", ok |-> FALSE, panic |-> FALSE],
      [err |-> Nil, code |-> "OK", ok |-> TRUE, panic |-> TRUE] }

\* handler(ctx, req) returns or panics; an error is put on the span.
GrpcHandler ==
    /\ serving.by = "grpc" /\ serving.pc = "handler"
    /\ \E out \in GrpcOutcomes :
         serving' = [serving EXCEPT
            !.pc = "deferred", !.err = out.err, !.panic = out.panic,
            !.statusCode = IF out.err # Nil /\ out.ok THEN out.code ELSE @,
            !.span = IF out.err # Nil
                     THEN SetAttributes(RecordError(@, 1, out.err), 1,
                              { <<"error", TRUE>>, <<"grpc.status_code", out.code>> })
                     ELSE @]
    /\ UNCHANGED <<handled, serverHandleCounter, serverHandleHistogram>>
    /\ ServeFrame

\* The deferred function of the interceptor.
GrpcDeferred ==
    /\ serving.by = "grpc" /\ serving.pc = "deferred"
    /\ LET labels == <<MetricTypeGRPC, "/svc/Method", serving.statusCode, "", "">>
       IN  /\ serving' = [serving EXCEPT !.pc = "done", !.span = End(@, 1), !.observed = labels]
           /\ serverHandleHistogram' = Inc(serverHandleHistogram, labels)
    /\ UNCHANGED <<handled, serverHandleCounter>>
    /\ ServeFrame

RedisNil == <<"redis: nil">>

\* redisHook.ProcessHook: with a recording span in ctx the command is
\* noted as an event on it, an error other than redis.Nil marks the span;
\* else the command is passed on.
ProcessHook ==
    /\ serving = NoCall /\ handled < MaxCalls
    /\ \E recording \in BOOLEAN, err \in {Nil, RedisNil, ErrBadConn} :
         serving' = [Taken("redis") EXCEPT
            !.pc = "done",
            !.span = IF ~recording THEN @
                     ELSE IF err # Nil /\ err # RedisNil
                          THEN SetAttributes(RecordError(@, 1, err), 1,
                                   { <<"error", TRUE>>, <<"event", "redis.v9.processCmd">> })
                          ELSE SetAttributes(@, 1, { <<"event", "redis.v9.processCmd">> })]
                    @@ [err |-> err, recording |-> recording]
    /\ handled' = handled + 1
    /\ UNCHANGED <<serverHandleCounter, serverHandleHistogram>>
    /\ ServeFrame

\* The call is over.
Served ==
    /\ serving.pc = "done"
    /\ serving' = NoCall
    /\ UNCHANGED <<handled, serverHandleCounter, serverHandleHistogram>>
    /\ ServeFrame

NextServe ==
    \/ WithPanicHook
    \/ WithRecordResponse
    \/ WithResponseFormat
    \/ WithRecordResponseWhenLogrusError
    \/ WithFilterRecordResponse
    \/ GinEnters
    \/ GinHandler
    \/ GinDeferred
    \/ GrpcEnters
    \/ GrpcHandler
    \/ GrpcDeferred
    \/ ProcessHook
    \/ Served

SpecServe == Init /\ [][NextServe]_vars

\* ------------------------------------------------------------------ C15
\* C15: a call the Gin middleware, the gRPC unary interceptor or the Redis
\* command hook has handled, whether it succeeded or failed, has
\* incremented the counter once and made one duration observation.
C15_OneIncOneObservation ==
    serving.pc = "done" =>
        /\ Total(serverHandleCounter) = serving.incsBefore + 1
        /\ Total(serverHandleHistogram) = serving.obsBefore + 1

\* ------------------------------------------------------------------ C18
\* The request the Gin middleware has finished serving.
GinServed == serving.by = "gin" /\ serving.pc = "done"

\* The response body is on the request's span.
BodyRecorded ==
    /\ <<"pinned", TRUE>> \in serving.span[1].attrs
    /\ \E kv \in serving.span[1].attrs : kv[1] = "http.response.body"

HooksInOrder ==
    LET registered == ginOpts.panicHooks
        n == Len(serving.hooked)
    IN  IF ~serving.panic THEN n = 0
        ELSE /\ n <= Len(registered)
             /\ \A i \in 1..n : serving.hooked[i] = i
             /\ \A i \in 1..(n - 1) : ~registered[i]
             /\ n < Len(registered) => n > 0 /\ registered[n]

\* The panic went no further than the middleware, which answered 500.
C19_Answers500AndHooksInOrder ==
    GinServed =>
        /\ serving.panic => serving.wire = 500
        /\ HooksInOrder

\* C19: when the handler panics the middleware recovers the panic, answers
\* with status 500 unless the handler had already written the response
\* header, and invokes the registered panic hooks in registration order,
\* stopping after the first that returns true; all hooks are invoked when
\* every one returns false, and none when there is no panic.
C19_HooksInOrder ==
    GinServed =>
        /\ serving.panic /\ ~serving.written => serving.wire = 500
        /\ HooksInOrder

\* A panic with two hooks registered, the first of which returned true:
\* the second was not invoked, and the answer was 500.
C19_Witness ==
    /\ GinServed
    /\ serving.panic
    /\ ginOpts.panicHooks = <<TRUE, FALSE>>
    /\ serving.hooked = << 1 >>
    /\ serving.wire = 500

\* ------------------------------------------------------------------ lifetimes
\* Stmt embeds driver.Stmt and declares no Close: closing a wrapped
\* statement is the native statement's Close, promoted.  The wrapper keeps
\* nothing about it.
StmtClose(p) ==
    /\ \E s \in 1..Len(stmts), err \in {Nil, ErrBadConn} :
          Returns(p, [NoOp EXCEPT !.kind = "Stmt.Close", !.recv = s, !.natErr = err, !.err = err],
                  << Ev("Native.call", "", <<>>, Background, Nil),
                     Ev("Native.return", "", <<>>, Background, err) >>)
    /\ UNCHANGED <<others, hooks, conns, stmts, prepared, txs, spans, libraryCounter, auditLog,
                   slowSqlThreshold, longTxThreshold, now>>

\* Conn.ExecContext with one text and no arguments
LifeExecContext(p) ==
    \E c \in 1..Len(conns) : Enter(p, "Conn.ExecContext", c, RequestCtx, QInsert, <<>>)

\* Stmt.QueryContext with no arguments
LifeQueryContext(p) ==
    \E s \in 1..Len(stmts) : Enter(p, "Stmt.QueryContext", s, RequestCtx, "", <<>>)

\* One goroutine uses every method of the wrapper: connections, statements
\* and transactions are made, used and ended.
NextLife ==
    \/ Open("g1")
    \/ PrepareContext("g1")
    \/ StmtClose("g1")
    \/ BeginTx("g1")
    \/ Commit("g1")
    \/ Rollback("g1")
    \/ LifeExecContext("g1")
    \/ LifeQueryContext("g1")
    \/ BeforeReturns("g1")
    \/ NativeReturns("g1")
    \/ AfterReturns("g1")
    \/ OnErrorReturns("g1")
    \/ Done("g1")

SpecLife == Init /\ [][NextLife]_vars

\* ------------------------------------------------------------------ C21
UnhookedMethods == {"Driver.Open", "Conn.PrepareContext", "Conn.BeginTx",
                    "DriverTx.Commit", "DriverTx.Rollback", "Stmt.Close"}

\* C21: Driver.Open, Conn.PrepareContext, Conn.BeginTx, DriverTx.Commit,
\* DriverTx.Rollback and closing a wrapped statement call none of Before,
\* After and OnError, and leave what the hooks write (spans started, the
\* counter, the audit log) as it was; a call of a hook is made only by
\* ExecContext and QueryContext of a wrapped connection or statement.
C21_OnlyExecAndQueryHook ==
    [][\A p \in Procs :
          LET called == {log'[p][i].ev : i \in 1..Len(log'[p])}
          IN  /\ called \cap HookCalls # {} => op'[p].kind \in HookedOps
              /\ pc[p] = "idle" /\ op'[p].kind \in UnhookedMethods =>
                    /\ called \cap HookCalls = {}
                    /\ Len(spans') = Len(spans)
                    /\ libraryCounter' = libraryCounter
                    /\ auditLog' = auditLog]_vars

\* A wrapped statement has been closed, after its query went through the
\* hooks built by wrap(): the span and the count are the query's.
C21_Witness ==
    /\ hooks = "wrap"
    /\ pc["g1"] = "returned"
    /\ op["g1"].kind = "Stmt.Close"
    /\ Len(log["g1"]) = 2
    /\ Len(spans) = 2 /\ spans[2].ended = 1
    /\ libraryCounter # <<>>

\* ------------------------------------------------------------------ C22
\* C22: in an Exec/Query call whose Before returned no error, the context
\* the native method and the terminal hook (After or OnError) are handed is
\* the context Before returned, not the caller's; with the hooks built by
\* wrap() it carries the start time and the span Before started under the
\* caller's span.  What After returns as context is not used: the call
\* ends with the context of Before.
C22_BeforeCtxThreaded ==
    \A p \in Procs :
        (Hooked(p) /\ BeforeReturned(p, FALSE)) =>
            LET got == TheCall(p, "Before.return").ctx
            IN  /\ \A i \in At(p, "Native.call") \cup At(p, "After.call") \cup At(p, "OnError.call") :
                       log[p][i].ctx = got
                /\ got # op[p].callerCtx
                /\ hooks = "wrap" =>
                       /\ got.begin # -1
                       /\ got.span # op[p].callerCtx.span
                       /\ spans[got.span].parent = op[p].callerCtx.span
                /\ \A i \in At(p, "After.return") \cup At(p, "OnError.return") :
                       log[p][i].ctx = got /\ op[p].ctx = got

\* A connection's QueryContext went through Before, the native query and
\* After of wrap(), all three with the span Before started.
C22_Witness ==
    \E p \in Procs :
        /\ hooks = "wrap"
        /\ pc[p] = "returned" /\ op[p].kind = "Conn.QueryContext"
        /\ Times(p, "Native.call") = 1 /\ Times(p, "After.return") = 1
        /\ TheCall(p, "After.call").ctx.span = 2
        /\ op[p].callerCtx.span = 1

\* ------------------------------------------------------------------ C23
\* The spans Before has started: all but the request's own span.
StartedByBefore == 2..Len(spans)

\* The call that started span id is still between Before and the return of
\* its terminal hook.
Running(id) ==
    \E p \in Procs :
        /\ Hooked(p) /\ pc[p] \in {"Native", "After", "OnError"}
        /\ op[p].ctx.span = id

\* C23: with the hooks built by wrap(), every span Before has started is
\* ended once, by After or by OnError, when its call is over, and never a
\* second time: no span of a call that is over is open.
C23_SpansEndedOnce ==
    hooks = "wrap" =>
        \A id \in StartedByBefore :
            /\ spans[id].ended <= 1
            /\ ~Running(id) => spans[id].ended = 1

\* ------------------------------------------------------------------ C24
\* The loop of Stop is through: Stop is about to return.
StopThrough == stopAt = 0

\* The functions the running call of Stop has invoked, in order.
ThisStop == SubSeq(invoked, stopFrom + 1, Len(invoked))

\* f was invoked before g by the running call of Stop.
InvokedBefore(f, g) ==
    \E i, j \in 1..Len(ThisStop) : i < j /\ ThisStop[i] = f /\ ThisStop[j] = g

\* The functions registered: the n-th registered is n.
Funcs == 1..Len(deferFuncs)

FirstStop == SubSeq(invoked, 1, stopFrom)

\* The functions of a sequence.
Range(seq) == {seq[i] : i \in 1..Len(seq)}

\* seq without what is not in set.
Restricted(seq, set) == SelectSeq(seq, LAMBDA f : f \in set)

\* C28: Stop leaves the list of registered functions as it is, and a second
\* call of Stop invokes every registered function again, those the first
\* call invoked in the same order as the first call did.
C28_SecondStopInvokesAgain ==
    (stops = 2 /\ StopThrough) =>
        /\ Range(ThisStop) = Funcs
        /\ Len(ThisStop) = Len(deferFuncs)
        /\ Range(FirstStop) \subseteq Range(ThisStop)
        /\ Restricted(ThisStop, Range(FirstStop)) = FirstStop

\* The second call of Stop has invoked the two functions the first invoked,
\* in the same order, and in between them one that was deferred since.
C28_Witness ==
    /\ stops = 2 /\ StopThrough
    /\ FirstStop = <<2, 1>>
    /\ ThisStop = <<3, 2, 1>>

\* ------------------------------------------------------------------ C25
\* The operation a statement is, read off its text.
OperationOf(sql) ==
    CASE sql = QInsert -> "INSERT"
      [] sql = QUpdate -> "UPDATE"
      [] sql = QDelete -> "DELETE"
      [] sql = QSelectT -> "SELECT"

\* The calls counted under one operation label.
RECURSIVE CountUnder(_, _)
CountUnder(counter, operation) ==
    IF counter = <<>> THEN 0
    ELSE (IF Head(counter).labels[2] = operation THEN Head(counter).n ELSE 0)
         + CountUnder(Tail(counter), operation)

\* C25: the After hook of wrap() writes one auditsql record, with the query
\* and its arguments, for a successful INSERT, UPDATE or DELETE and none
\* for a SELECT, and counts the call under the operation of the statement
\* (insert, update, delete or select).
C25_AuditedAndLabelled ==
    [][\A p \in Procs :
          /\ \A sql \in {QInsert, QUpdate, QDelete} :
                AfterRuns(p, sql) =>
                    /\ Len(auditLog') = Len(auditLog) + 1
                    /\ auditLog'[Len(auditLog')].query = sql
          /\ AfterRuns(p, QSelectT) => auditLog' = auditLog
          /\ \A sql \in SingleTableTexts :
                AfterRuns(p, sql) =>
                    CountUnder(libraryCounter', OperationOf(sql))
                        = CountUnder(libraryCounter, OperationOf(sql)) + 1]_vars

\* ------------------------------------------------------------------ C26
\* C26: with the hooks built by wrap(), whatever the text of a statement
\* the native call ran without error, After does not panic: once called it
\* returns, also when the table list of the statement is a single JOIN, a
\* single parenthesised list, or the statement holds a subquery.
C26_AfterCompletes ==
    \A p \in Procs :
        (hooks = "wrap" /\ Hooked(p)) =>
            /\ Times(p, "After.panic") = 0
            /\ (Finished(p) /\ Times(p, "After.call") = 1) => Times(p, "After.return") = 1

\* ------------------------------------------------------------------ C27
\* Transactions are begun and ended on an open connection while time
\* passes and the threshold is set anew.
NextThreshold ==
    \/ BeginTx("g1")
    \/ Commit("g1")
    \/ Rollback("g1")
    \/ Done("g1")
    \/ Tick
    \/ SetLongTxThreshold

SpecThreshold == InitConc /\ [][NextThreshold]_vars

\* C27: a transaction takes the process-wide threshold as it is when
\* BeginTx makes it and keeps it: SetLongTxThreshold changes the threshold
\* of no transaction already begun, and Commit and Rollback flag the
\* transaction by the threshold it was begun with, whatever the
\* process-wide threshold is by then.
C27_ThresholdFixedAtBegin ==
    [][/\ Len(txs') > Len(txs) => txs'[Len(txs')].longTxThreshold = longTxThreshold
       /\ \A t \in 1..Len(txs) : txs'[t].longTxThreshold = txs[t].longTxThreshold
       /\ \A p \in Procs : \A t \in 1..Len(txs) :
              (TxFinishes(p, t) /\ txs[t].ctx.span # 0) =>
                  LET elapsed == now - txs[t].start
                  IN  IF elapsed >= txs[t].longTxThreshold
                      THEN LongTxAttrs(elapsed) \subseteq spans'[txs[t].ctx.span].attrs
                      ELSE spans' = spans]_vars

\* A transaction begun under the threshold of 3 s was committed after 2 s,
\* when the process-wide threshold had been set to 1 s: it is not flagged.
C27_Witness ==
    \E p \in Procs :
        /\ pc[p] = "returned" /\ op[p].kind = "DriverTx.Commit"
        /\ txs[op[p].recv].longTxThreshold = LongTxSeconds
        /\ longTxThreshold = 1
        /\ now - txs[op[p].recv].start = 2
        /\ txs[op[p].recv].ctx.span = 1
        /\ spans[1].attrs = {}

\* ------------------------------------------------------------------ C29
\* The constructor calls made so far that got as far as sql.Register.
Registering == {i \in 1..Len(dbs) : ~dbs[i].panicked}

\* The entries of the registry under one key.
EntriesOf(key) == {k \in 1..Len(drivers) : drivers[k].key = key}

\* C29: a NewMySQL call with a connect URL that parses has added exactly
\* one entry to the driver registry, which is still there when the call
\* returned the error of opening or pinging the database; a call with a
\* connect URL that does not parse panicked, returned no error, and
\* registered nothing.
C29_RegisteredEvenOnError ==
    /\ \A i \in 1..Len(dbs) :
           dbs[i].by = "NewMySQL" =>
               IF dbs[i].connectURL = DsnBad
               THEN dbs[i].panicked /\ dbs[i].err = Nil /\ dbs[i].key = NoKey
               ELSE /\ ~dbs[i].panicked
                    /\ Cardinality(EntriesOf(dbs[i].key)) = 1
    /\ Len(drivers) = 1 + Cardinality(Registering)

\* Of two NewMySQL calls, the first returned the error of its ping and
\* left its driver registered, the second panicked on its connect URL.
C29_Witness ==
    /\ Len(dbs) = 2
    /\ dbs[1].by = "NewMySQL" /\ dbs[1].err = ErrBadConn /\ dbs[1].db = NoKey
    /\ dbs[1].key \in Registered(drivers)
    /\ dbs[2].by = "NewMySQL" /\ dbs[2].panicked
    /\ Len(drivers) = 2

\* ------------------------------------------------------------------ C30
\* The call the gRPC interceptor has finished serving, its handler having
\* returned.
GrpcServed == serving.by = "grpc" /\ serving.pc = "done" /\ ~serving.panic

\* The values the span of the call has under one attribute key.
SpanValues(key) == {kv[2] : kv \in {a \in serving.span[1].attrs : a[1] = key}}

\* C30: when the handler returned an error, the status label of the
\* duration observation is the code written to the span as grpc.status_code
\* and is not OK; when it returned none, the label is OK and the span is not
\* marked as an error.
C30_LabelIsSpanCode ==
    GrpcServed =>
        IF serving.err # Nil
        THEN /\ SpanValues("grpc.status_code") = {serving.observed[3]}
             /\ serving.observed[3] # "OK"
        ELSE /\ serving.observed[3] = "OK"
             /\ SpanValues("error") = {}
             /\ serving.span[1].errors = <<>>

\* ------------------------------------------------------------------ capabilities
\* Statements are prepared and transactions begun and ended on an open
\* connection, whatever its native connection can do.
NextCapability ==
    \/ PrepareContext("g1")
    \/ BeginTx("g1")
    \/ Commit("g1")
    \/ Rollback("g1")
    \/ Done("g1")

SpecCapability == InitConc /\ [][NextCapability]_vars

====
